---- MODULE Spec2Model ----
(***************************************************************************)
(* Model of the rengine global object registry (src/src/state.rs) and of   *)
(* the start-up population of the registry (src/src/manager.rs).           *)
(*                                                                         *)
(* The registry is one GlobalState value behind an RwLock.  Every public   *)
(* function of engine_state takes the lock, calls one GlobalState method   *)
(* and releases the lock, so each public function is one atomic action.    *)
(* The compound bookkeeping functions a_add_* / a_remove_* call several    *)
(* public functions in a row and take the lock once per call.              *)
(*                                                                         *)
(* The collision/movement resolver (src/src/engine/mod.rs check_collision  *)
(* and move_object, src/src/scripts/mod.rs _safe_move and process) reads   *)
(* the registry and changes the position and velocity of the mover only.   *)
(***************************************************************************)
EXTENDS Integers, Sequences, FiniteSets, TLC

\* ------------------------------------------------------------------------
\* Program constants
\* ------------------------------------------------------------------------
NumMasks == 15
NumZ == 255

\* ------------------------------------------------------------------------
\* Bounds of the model
\* ------------------------------------------------------------------------
MaxLen == 3
MaxCalls == 2

\* Identifiers handed to the granular functions (any String in the code).
Ids == {"a", "b"}

\* Mask (collision group) indices tried: both edges of 1..15, a middle
\* value and the first value outside on either side.
GroupInputs == {0, 1, 8, 15, 16}

\* z-index (draw layer) rows tried by the granular functions.
LayerInputs == {0, 1, 255, 256}

\* Object handles (Arc<Mutex<Box<dyn ..>>>), identified by a number.
StaticHandles == {1, 2}
AnimatedHandles == {3, 4}
Handles == StaticHandles \cup AnimatedHandles

\* gen_id(): every object gets its own identifier.
ObjId(h) == <<"a", "c", "b", "d">>[h]

\* z_index values (u8) and mask vectors given to the objects under test.
ZInputs == {0, 1, 255}
MaskInputs == {<< >>, <<1>>, <<1, 15>>, <<2, 16>>}

VARIABLES
    gs,        \* the GlobalState behind GLOBAL_STATE
    poisoned,  \* TRUE once a holder of the GLOBAL_STATE lock has panicked
    objects,   \* handle -> the fields of the object behind the handle
    last,      \* the call that ran last: arguments, result, registry before
    prev,      \* the call that ran before `last`
    first,     \* per map: id -> handle of the first insert since a remove
    pc,        \* per thread: the compound call in progress and its position
    objlock,   \* per handle: the thread holding the object's Mutex, or 0
    mv,        \* the last resolver call: mover, delta_time, mover before
    list,      \* a types::List: its nodes, head, tail, length and cursor
    script,    \* an AnimatedObject's sequence and the script steps it ran
    out,       \* the last call on the list or of a pure function
    input      \* INPUT_ACTION: its slot, its locks and the calls made on it

vars == <<gs, poisoned, objects, last, prev, first, pc, objlock, mv, list,
          script, out, input>>

\* ------------------------------------------------------------------------
\* Helpers
\* ------------------------------------------------------------------------
EmptyMap == [k \in {} |-> 0]

Range(s) == {s[i] : i \in 1..Len(s)}

\* Mutant of retain: drops the first occurrence only.
RECURSIVE retain_first(_, _)
retain_first(s, id) ==
    IF s = << >> THEN << >>
    ELSE IF Head(s) = id THEN Tail(s)
    ELSE <<Head(s)>> \o retain_first(Tail(s), id)

\* Vec::retain(|x| x != &id)
RECURSIVE retain(_, _)
retain(s, id) ==
    IF s = << >> THEN << >>
    ELSE IF Head(s) = id THEN retain(Tail(s), id)
    ELSE <<Head(s)>> \o retain(Tail(s), id)

Res(ok, g) == [ok |-> ok, gs |-> g]

\* ------------------------------------------------------------------------
\* GlobalState and its methods
\* ------------------------------------------------------------------------
GlobalState_default ==
    [masks           |-> [i \in 0..(NumMasks - 1) |-> << >>],
     s_z_index       |-> [i \in 0..(NumZ - 1) |-> << >>],
     a_z_index       |-> [i \in 0..(NumZ - 1) |-> << >>],
     s_identifiables |-> << >>,
     a_identifiables |-> << >>,
     s_map           |-> EmptyMap,
     a_map           |-> EmptyMap]

\* Mutant of append_mask: the mask is used as a 0-based index.
append_mask_zero_based(g, mask, item) ==
    IF ~(mask \in 1..15) THEN Res(FALSE, g)
    ELSE Res(TRUE, [g EXCEPT !.masks[mask % 15] = Append(@, item)])

\* Mutant of append_mask: an out-of-range index is clamped into 1..15.
append_mask_clamp(g, mask, item) ==
    LET m == IF mask < 1 THEN 1 ELSE IF mask > 15 THEN 15 ELSE mask
    IN Res(TRUE, [g EXCEPT !.masks[m - 1] = Append(@, item)])

append_mask(g, mask, item) ==
    IF ~(mask \in 1..15) THEN Res(FALSE, g)
    ELSE Res(TRUE, [g EXCEPT !.masks[mask - 1] = Append(@, item)])

\* Mutant of remove_mask: the row is used as a 0-based index.
remove_mask_zero_based(g, row, id) ==
    IF ~(row \in 1..15) THEN Res(FALSE, g)
    ELSE Res(TRUE, [g EXCEPT !.masks[row % 15] = retain(@, id)])

remove_mask(g, row, id) ==
    IF ~(row \in 1..15) THEN Res(FALSE, g)
    ELSE Res(TRUE, [g EXCEPT !.masks[row - 1] = retain(@, id)])

append_static_z_index(g, row, id) ==
    IF ~(row \in 1..255) THEN Res(FALSE, g)
    ELSE Res(TRUE, [g EXCEPT !.s_z_index[row - 1] = Append(@, id)])

append_animated_z_index(g, row, id) ==
    IF ~(row \in 1..255) THEN Res(FALSE, g)
    ELSE Res(TRUE, [g EXCEPT !.a_z_index[row - 1] = Append(@, id)])

remove_static_z_index(g, row, id) ==
    IF ~(row \in 1..255) THEN Res(FALSE, g)
    ELSE Res(TRUE, [g EXCEPT !.s_z_index[row - 1] = retain(@, id)])

remove_animated_z_index(g, row, id) ==
    IF ~(row \in 1..255) THEN Res(FALSE, g)
    ELSE Res(TRUE, [g EXCEPT !.a_z_index[row - 1] = retain(@, id)])

\* Mutant of remove_static_identifiable: the id-list is left alone.
remove_static_identifiable_skip(g, id) == Res(TRUE, g)

append_static_identifiable(g, id) ==
    Res(TRUE, [g EXCEPT !.s_identifiables = Append(@, id)])

append_animated_identifiable(g, id) ==
    Res(TRUE, [g EXCEPT !.a_identifiables = Append(@, id)])

remove_static_identifiable(g, id) ==
    Res(TRUE, [g EXCEPT !.s_identifiables = retain(@, id)])

remove_animated_identifiable(g, id) ==
    Res(TRUE, [g EXCEPT !.a_identifiables = retain(@, id)])

\* Mutant of insert_s_map: HashMap::insert without the contains_key test.
insert_s_map_overwrite(g, key, value) ==
    [g EXCEPT !.s_map = (key :> value) @@ g.s_map]

insert_s_map(g, key, value) ==
    IF key \in DOMAIN g.s_map THEN g
    ELSE [g EXCEPT !.s_map = (key :> value) @@ g.s_map]

insert_a_map(g, key, value) ==
    IF key \in DOMAIN g.a_map THEN g
    ELSE [g EXCEPT !.a_map = (key :> value) @@ g.a_map]

remove_s_map_keep(g, key) == g

remove_s_map(g, key) ==
    [g EXCEPT !.s_map = [k \in (DOMAIN g.s_map) \ {key} |-> g.s_map[k]]]

remove_a_map(g, key) ==
    [g EXCEPT !.a_map = [k \in (DOMAIN g.a_map) \ {key} |-> g.a_map[k]]]

\* Getters: ok and the returned Vec (or the returned handle in a 1-tuple).
get_mask_row(g, row) ==
    IF ~(row \in 1..15) THEN [ok |-> FALSE, val |-> << >>]
    ELSE [ok |-> TRUE, val |-> g.masks[row - 1]]

get_static_z_index_row(g, row) ==
    IF ~(row \in 1..255) THEN [ok |-> FALSE, val |-> << >>]
    ELSE [ok |-> TRUE, val |-> g.s_z_index[row - 1]]

get_animated_z_index_row(g, row) ==
    IF ~(row \in 1..255) THEN [ok |-> FALSE, val |-> << >>]
    ELSE [ok |-> TRUE, val |-> g.a_z_index[row - 1]]

get_static_object(g, key) ==
    IF key \in DOMAIN g.s_map THEN [ok |-> TRUE, val |-> <<g.s_map[key]>>]
    ELSE [ok |-> FALSE, val |-> << >>]

get_animated_object(g, key) ==
    IF key \in DOMAIN g.a_map THEN [ok |-> TRUE, val |-> <<g.a_map[key]>>]
    ELSE [ok |-> FALSE, val |-> << >>]

\* ------------------------------------------------------------------------
\* Call records
\* ------------------------------------------------------------------------
Call(op, h, row, id, ok, ret, before) ==
    [op |-> op, h |-> h, row |-> row, id |-> id, ok |-> ok, ret |-> ret,
     before |-> before]

NoCall == Call("none", 0, -1, "", TRUE, << >>, GlobalState_default)

\* Positions, sizes and velocities (f32) are held in Units, 2^16 to the
\* pixel; a sum of two of them is exact and a product is rounded to the
\* nearest Unit.  For the magnitudes used here (64 to 1024 pixels) an f32
\* has 2^-17 to 2^-14 pixel between neighbours, so a Unit is the f32 grain.
Unit == 65536

Px(n) == n * Unit

\* The fields of StaticObject / AnimatedObject the registry and the resolver
\* read; a StaticObject has no velocity field, which is modelled by a
\* velocity that nothing reads.
Vec2(x, y) == [x |-> x, y |-> y]

\* PointWithDeg: a position and a rotation in degrees.
Point(x, y, deg) == [x |-> x, y |-> y, deg |-> deg]

DefaultObjects ==
    [h \in Handles |-> [z_index |-> 1, masks |-> <<1>>, pos |-> Point(0, 0, 0),
                        size |-> Vec2(Px(10), Px(5)),
                        velocity |-> Vec2(0, 0)]]

\* No resolver call has run yet.
\* What a resolver call keeps of the call made before it.
Prior(rec) == [op |-> rec.op, h |-> rec.h, dt |-> rec.dt,
               blocked |-> rec.blocked]

NoMove == [op |-> "none", h |-> 0, dt |-> 0, start |-> DefaultObjects[3],
           blocked |-> FALSE, tests |-> 0, moves |-> 0,
           g |-> GlobalState_default, p |-> FALSE, objs0 |-> DefaultObjects,
           prior |-> [op |-> "none", h |-> 0, dt |-> 0, blocked |-> FALSE]]

\* InputAction::new(): the slot is None (0); no caller holds the RwLock,
\* no action was pushed and none was returned.
NoInput == [slot |-> 0, readers |-> {}, writer |-> 0, pushed |-> 0,
            stored |-> 0, got |-> << >>]

\* List::new(): no node, head, tail and cursor None (0), length 0.
List_new ==
    [nodes |-> << >>, head |-> 0, tail |-> 0, length |-> 0, current |-> 0]

\* AnimatedObject::default(): sequence None, and no script step run yet.
NoScript == [some |-> FALSE, sequence |-> << >>, ran |-> << >>]

\* No call on the list and of no pure function has been made yet.
NoOut == [op |-> "none"]

Idle == [op |-> "idle", h |-> 0, phase |-> "idle", i |-> 0, calls |-> 0]

Threads == {1, 2}

\* Number of ids stored in the mask rows.
RECURSIVE SumLen(_, _)
SumLen(f, S) ==
    IF S = {} THEN 0
    ELSE LET x == CHOOSE y \in S : TRUE IN Len(f[x]) + SumLen(f, S \ {x})

MaskEntries(g) == SumLen(g.masks, DOMAIN g.masks)

\* The call `c` ran and left the registry `g`; locks and objects untouched.
Ran(c, g) ==
    /\ gs' = g
    /\ last' = c
    /\ prev' = last
    /\ UNCHANGED <<poisoned, objects, first, pc, objlock, mv, list, script, out, input>>

\* ------------------------------------------------------------------------
\* Granular public functions on the mask rows
\* ------------------------------------------------------------------------
append_mask_to_row(row, id) ==
    /\ MaskEntries(gs) < MaxLen
    /\ LET r == IF poisoned THEN Res(FALSE, gs) ELSE append_mask(gs, row, id)
       IN Ran(Call("append_mask_to_row", 0, row, id, r.ok, << >>, gs), r.gs)

remove_mask_from_row(row, id) ==
    LET r == IF poisoned THEN Res(FALSE, gs) ELSE remove_mask(gs, row, id)
    IN Ran(Call("remove_mask_from_row", 0, row, id, r.ok, << >>, gs), r.gs)

get_mask_row_call(row) ==
    LET r == IF poisoned THEN [ok |-> FALSE, val |-> << >>]
             ELSE get_mask_row(gs, row)
    IN Ran(Call("get_mask_row", 0, row, "", r.ok, r.val, gs), gs)

Init ==
    /\ gs = GlobalState_default
    /\ poisoned = FALSE
    /\ objects = DefaultObjects
    /\ last = NoCall
    /\ prev = NoCall
    /\ first = [s |-> EmptyMap, a |-> EmptyMap]
    /\ pc = [t \in Threads |-> Idle]
    /\ objlock = [h \in Handles |-> 0]
    /\ mv = NoMove
    /\ list = List_new
    /\ script = NoScript
    /\ input = NoInput
    /\ out = NoOut

NextMask ==
    \/ \E row \in GroupInputs, id \in Ids : append_mask_to_row(row, id)
    \/ \E row \in GroupInputs, id \in Ids : remove_mask_from_row(row, id)
    \/ \E row \in GroupInputs : get_mask_row_call(row)

SpecMask == Init /\ [][NextMask]_vars

\* ------------------------------------------------------------------------
\* Properties of the mask rows (SpecMask)
\* ------------------------------------------------------------------------
MaskOps == {"append_mask_to_row", "remove_mask_from_row", "get_mask_row"}

Count(s, id) == Cardinality({i \in 1..Len(s) : s[i] = id})

OtherMaskRowsSame(g1, g2, row) ==
    \A i \in 0..(NumMasks - 1) : i # row - 1 => g1.masks[i] = g2.masks[i]

RoundTrip ==
    /\ prev.op = "append_mask_to_row"
    /\ last.op = "remove_mask_from_row"
    /\ prev.row = last.row
    /\ prev.id = last.id
    /\ last.row \in 1..15

\* C8 as stated: for every prior content of the group's list, also one
\* that already contains id, append_to_group(g, id) followed by
\* remove_from_group(g, id) restores the list's pre-append length.
C8_Original ==
    RoundTrip =>
        Len(gs.masks[last.row - 1]) = Len(prev.before.masks[last.row - 1])

\* C8 amended: for every group g in 1..15, every id and every prior
\* content of the group's list that does not contain id,
\* append_to_group(g, id) followed by remove_from_group(g, id) restores
\* the list to the length it had before the append.
C8_RoundTripWhenAbsent ==
    (RoundTrip /\ last.id \notin Range(prev.before.masks[last.row - 1])) =>
        /\ prev.ok /\ last.ok
        /\ Len(gs.masks[last.row - 1]) =
               Len(prev.before.masks[last.row - 1])

C8_Witness ==
    /\ RoundTrip
    /\ last.id \notin Range(prev.before.masks[last.row - 1])
    /\ Len(prev.before.masks[last.row - 1]) > 0
    /\ last.row = 15

\* C9: remove_from_group(g, id) with g in 1..15 removes every occurrence
\* of id from group g's list and nothing else, the other ids keeping their
\* relative order; when id is not in the list it succeeds and changes
\* nothing, so a second removal leaves the registry as the first left it.
C9_RemoveAllOccurrences ==
    (last.op = "remove_mask_from_row" /\ last.row \in 1..15) =>
        LET old == last.before.masks[last.row - 1]
            new == gs.masks[last.row - 1]
        IN /\ last.ok
           /\ last.id \notin Range(new)
           /\ new = SelectSeq(old, LAMBDA x : x # last.id)
           /\ OtherMaskRowsSame(gs, last.before, last.row)
           /\ [gs EXCEPT !.masks = last.before.masks] = last.before
           /\ last.id \notin Range(old) => gs = last.before
           /\ (prev.op = "remove_mask_from_row" /\ prev.row = last.row
                  /\ prev.id = last.id) => gs = last.before

C9_Witness ==
    /\ last.op = "remove_mask_from_row" /\ last.row \in 1..15
    /\ Count(last.before.masks[last.row - 1], last.id) >= 2
    /\ Len(gs.masks[last.row - 1]) >= 1

\* ------------------------------------------------------------------------
\* Granular public functions on the z-index rows
\* ------------------------------------------------------------------------
ValidLayerInputs == {row \in LayerInputs : row \in 1..255}

\* Number of ids stored in the z-index rows the inputs can address.
ZEntries(g) ==
    SumLen([row \in ValidLayerInputs |-> g.s_z_index[row - 1]],
           ValidLayerInputs)
    + SumLen([row \in ValidLayerInputs |-> g.a_z_index[row - 1]],
             ValidLayerInputs)

append_static_id_to_z_index_row(row, id) ==
    /\ ZEntries(gs) < MaxLen - 1
    /\ LET r == IF poisoned THEN Res(FALSE, gs)
                ELSE append_static_z_index(gs, row, id)
       IN Ran(Call("append_static_id_to_z_index_row", 0, row, id, r.ok,
                   << >>, gs), r.gs)

append_animated_id_to_z_index_row(row, id) ==
    /\ ZEntries(gs) < MaxLen - 1
    /\ LET r == IF poisoned THEN Res(FALSE, gs)
                ELSE append_animated_z_index(gs, row, id)
       IN Ran(Call("append_animated_id_to_z_index_row", 0, row, id, r.ok,
                   << >>, gs), r.gs)

remove_static_z_index_from_row(row, id) ==
    LET r == IF poisoned THEN Res(FALSE, gs)
             ELSE remove_static_z_index(gs, row, id)
    IN Ran(Call("remove_static_z_index_from_row", 0, row, id, r.ok,
                << >>, gs), r.gs)

remove_animated_z_index_from_row(row, id) ==
    LET r == IF poisoned THEN Res(FALSE, gs)
             ELSE remove_animated_z_index(gs, row, id)
    IN Ran(Call("remove_animated_z_index_from_row", 0, row, id, r.ok,
                << >>, gs), r.gs)

get_static_z_index_row_call(row) ==
    LET r == IF poisoned THEN [ok |-> FALSE, val |-> << >>]
             ELSE get_static_z_index_row(gs, row)
    IN Ran(Call("get_static_z_index_row", 0, row, "", r.ok, r.val, gs), gs)

get_animated_z_index_row_call(row) ==
    LET r == IF poisoned THEN [ok |-> FALSE, val |-> << >>]
             ELSE get_animated_z_index_row(gs, row)
    IN Ran(Call("get_animated_z_index_row", 0, row, "", r.ok, r.val, gs), gs)

NextLayer ==
    \/ \E row \in LayerInputs, id \in Ids :
           append_static_id_to_z_index_row(row, id)
    \/ \E row \in LayerInputs, id \in Ids :
           append_animated_id_to_z_index_row(row, id)
    \/ \E row \in LayerInputs, id \in Ids :
           remove_static_z_index_from_row(row, id)
    \/ \E row \in LayerInputs, id \in Ids :
           remove_animated_z_index_from_row(row, id)
    \/ \E row \in LayerInputs : get_static_z_index_row_call(row)
    \/ \E row \in LayerInputs : get_animated_z_index_row_call(row)

SpecLayer == Init /\ [][NextLayer]_vars

\* ------------------------------------------------------------------------
\* Properties of the z-index rows (SpecLayer)
\* ------------------------------------------------------------------------
AppendLayerOps ==
    {"append_static_id_to_z_index_row", "append_animated_id_to_z_index_row"}

RemoveLayerOps ==
    {"remove_static_z_index_from_row", "remove_animated_z_index_from_row"}

\* The z-index array of the category a layer function works on.
LayerArray(g, op) ==
    IF op \in {"append_static_id_to_z_index_row",
               "remove_static_z_index_from_row"}
    THEN g.s_z_index ELSE g.a_z_index

RoundTripZ ==
    /\ \/ /\ prev.op = "append_static_id_to_z_index_row"
          /\ last.op = "remove_static_z_index_from_row"
       \/ /\ prev.op = "append_animated_id_to_z_index_row"
          /\ last.op = "remove_animated_z_index_from_row"
    /\ prev.row = last.row
    /\ prev.id = last.id

\* C6: for every layer l in 0..255 and each category, append_to_layer
\* succeeds and a following remove_from_layer succeeds and restores the
\* layer's list to its pre-append length (the id not being in the list
\* before); for l outside 0..255 both fail.
C6_LayerRoundTrip ==
    /\ last.op \in (AppendLayerOps \cup RemoveLayerOps) =>
           (last.ok <=> last.row \in 0..255)
    /\ (RoundTripZ /\ last.row \in 1..255
          /\ last.id \notin Range(LayerArray(prev.before, last.op)[last.row - 1]))
           => Len(LayerArray(gs, last.op)[last.row - 1]) =
                  Len(LayerArray(prev.before, last.op)[last.row - 1])

\* ------------------------------------------------------------------------
\* Granular public functions on the object maps
\* ------------------------------------------------------------------------
\* As Ran, for the calls that insert into or remove from a map: `f` is the
\* record of first inserts after the call.
RanMap(c, g, f) ==
    /\ gs' = g
    /\ last' = c
    /\ prev' = last
    /\ first' = f
    /\ UNCHANGED <<poisoned, objects, pc, objlock, mv, list, script, out, input>>

FirstInsert(m, id, h) == IF id \in DOMAIN m THEN m ELSE (id :> h) @@ m

Without(m, id) == [k \in (DOMAIN m) \ {id} |-> m[k]]

\* The first inserts after a call that left the map `m`: the entries the
\* call added are first inserts, the earlier ones stay.
FirstInserts(f, m) ==
    [k \in DOMAIN m |-> IF k \in DOMAIN f THEN f[k] ELSE m[k]]

insert_static_object(id, h) ==
    IF poisoned
    THEN Ran(Call("insert_static_object", h, -1, id, FALSE, << >>, gs), gs)
    ELSE RanMap(Call("insert_static_object", h, -1, id, TRUE, << >>, gs),
                insert_s_map(gs, id, h),
                [first EXCEPT !.s = FirstInsert(@, id, h)])

insert_animated_object(id, h) ==
    IF poisoned
    THEN Ran(Call("insert_animated_object", h, -1, id, FALSE, << >>, gs), gs)
    ELSE RanMap(Call("insert_animated_object", h, -1, id, TRUE, << >>, gs),
                insert_a_map(gs, id, h),
                [first EXCEPT !.a = FirstInsert(@, id, h)])

remove_static_object(id) ==
    IF poisoned
    THEN Ran(Call("remove_static_object", 0, -1, id, FALSE, << >>, gs), gs)
    ELSE RanMap(Call("remove_static_object", 0, -1, id, TRUE, << >>, gs),
                remove_s_map(gs, id),
                [first EXCEPT !.s = Without(@, id)])

remove_animated_object(id) ==
    IF poisoned
    THEN Ran(Call("remove_animated_object", 0, -1, id, FALSE, << >>, gs), gs)
    ELSE RanMap(Call("remove_animated_object", 0, -1, id, TRUE, << >>, gs),
                remove_a_map(gs, id),
                [first EXCEPT !.a = Without(@, id)])

get_static_object_call(id) ==
    LET r == IF poisoned THEN [ok |-> FALSE, val |-> << >>]
             ELSE get_static_object(gs, id)
    IN Ran(Call("get_static_object", 0, -1, id, r.ok, r.val, gs), gs)

get_animated_object_call(id) ==
    LET r == IF poisoned THEN [ok |-> FALSE, val |-> << >>]
             ELSE get_animated_object(gs, id)
    IN Ran(Call("get_animated_object", 0, -1, id, r.ok, r.val, gs), gs)

NextMap ==
    \/ \E id \in Ids, h \in StaticHandles : insert_static_object(id, h)
    \/ \E id \in Ids, h \in AnimatedHandles : insert_animated_object(id, h)
    \/ \E id \in Ids : remove_static_object(id)
    \/ \E id \in Ids : remove_animated_object(id)
    \/ \E id \in Ids : get_static_object_call(id)
    \/ \E id \in Ids : get_animated_object_call(id)

SpecMap == Init /\ [][NextMap]_vars

\* ------------------------------------------------------------------------
\* Properties of the object maps (SpecMap)
\* ------------------------------------------------------------------------
\* C10: insert_object is first-writer-wins: after any sequence of
\* insert_object calls for one id and category with no remove_object in
\* between, get_object returns the handle passed to the first of them; a
\* later insert changes nothing and still reports success.
C10_FirstWriterWins ==
    /\ (last.op = "get_static_object" /\ last.id \in DOMAIN first.s) =>
           (last.ok /\ last.ret = <<first.s[last.id]>>)
    /\ (last.op = "get_animated_object" /\ last.id \in DOMAIN first.a) =>
           (last.ok /\ last.ret = <<first.a[last.id]>>)
    /\ last.op \in {"insert_static_object", "insert_animated_object"} =>
           /\ last.ok
           /\ (prev.op = last.op /\ prev.id = last.id) => gs = last.before

C10_Witness ==
    /\ last.op = "get_static_object"
    /\ prev.op = "insert_static_object"
    /\ prev.id = last.id
    /\ last.id \in DOMAIN first.s
    /\ prev.h # first.s[last.id]
    /\ last.ok

\* ------------------------------------------------------------------------
\* Compound bookkeeping: a_add_* / a_remove_* and populate_global_state
\* ------------------------------------------------------------------------
\* `for row in lock_obj.get_masks() { append_mask_to_row(row, id)?; }`
RECURSIVE append_masks(_, _, _)
append_masks(g, masks, id) ==
    IF masks = << >> THEN Res(TRUE, g)
    ELSE LET r == append_mask(g, Head(masks), id)
         IN IF ~r.ok THEN r ELSE append_masks(r.gs, Tail(masks), id)

\* `for row in lock_obj.get_masks() { remove_mask_from_row(row, id)?; }`
RECURSIVE remove_masks(_, _, _)
remove_masks(g, masks, id) ==
    IF masks = << >> THEN Res(TRUE, g)
    ELSE LET r == remove_mask(g, Head(masks), id)
         IN IF ~r.ok THEN r ELSE remove_masks(r.gs, Tail(masks), id)

a_add_s_object_run(g, obj, h) ==
    LET id == ObjId(h)
        r1 == append_masks(g, obj.masks, id)
        r2 == append_static_z_index(r1.gs, obj.z_index, id)
        r3 == append_static_identifiable(r2.gs, id)
    IN IF ~r1.ok THEN r1
       ELSE IF ~r2.ok THEN r2
       ELSE Res(TRUE, insert_s_map(r3.gs, id, h))

a_add_a_object_run(g, obj, h) ==
    LET id == ObjId(h)
        r1 == append_masks(g, obj.masks, id)
        r2 == append_animated_z_index(r1.gs, obj.z_index, id)
        r3 == append_animated_identifiable(r2.gs, id)
    IN IF ~r1.ok THEN r1
       ELSE IF ~r2.ok THEN r2
       ELSE Res(TRUE, insert_a_map(r3.gs, id, h))

a_remove_s_object_run(g, obj, h) ==
    LET id == ObjId(h)
        r1 == remove_masks(g, obj.masks, id)
        r2 == remove_static_z_index(r1.gs, obj.z_index, id)
        r3 == remove_static_identifiable(r2.gs, id)
    IN IF ~r1.ok THEN r1
       ELSE IF ~r2.ok THEN r2
       ELSE Res(TRUE, remove_s_map(r3.gs, id))

a_remove_a_object_run(g, obj, h) ==
    LET id == ObjId(h)
        r1 == remove_masks(g, obj.masks, id)
        r2 == remove_animated_z_index(r1.gs, obj.z_index, id)
        r3 == remove_animated_identifiable(r2.gs, id)
    IN IF ~r1.ok THEN r1
       ELSE IF ~r2.ok THEN r2
       ELSE Res(TRUE, remove_a_map(r3.gs, id))

\* The z-index slots the objects under test can be put in: slot z - 1 by
\* the append functions, slot z by populate_global_state.
ZSlots ==
    {z - 1 : z \in {y \in ZInputs : y \in 1..255}}
        \cup {z \in ZInputs : z \in 0..(NumZ - 1)}

ObjZEntries(g) ==
    SumLen([i \in ZSlots |-> g.s_z_index[i]], ZSlots)
    + SumLen([i \in ZSlots |-> g.a_z_index[i]], ZSlots)

\* The registry is kept small: no compound call that adds starts once an
\* id-list holds MaxLen - 1 ids, or the mask rows or the z-index rows hold
\* 2 * (MaxLen - 1) ids.
Room(g) ==
    /\ Len(g.s_identifiables) < MaxLen - 1
    /\ Len(g.a_identifiables) < MaxLen - 1
    /\ MaskEntries(g) < 2 * (MaxLen - 1)
    /\ ObjZEntries(g) < 2 * (MaxLen - 1)

a_add_s_object(h) ==
    /\ Room(gs)
    /\ objlock[h] = 0
    /\ LET r == IF poisoned THEN Res(FALSE, gs)
                ELSE a_add_s_object_run(gs, objects[h], h)
       IN RanMap(Call("a_add_s_object", h, -1, ObjId(h), r.ok, << >>, gs),
                 r.gs,
                 IF r.ok THEN [first EXCEPT !.s = FirstInsert(@, ObjId(h), h)]
                 ELSE first)

a_add_a_object(h) ==
    /\ Room(gs)
    /\ objlock[h] = 0
    /\ LET r == IF poisoned THEN Res(FALSE, gs)
                ELSE a_add_a_object_run(gs, objects[h], h)
       IN RanMap(Call("a_add_a_object", h, -1, ObjId(h), r.ok, << >>, gs),
                 r.gs,
                 IF r.ok THEN [first EXCEPT !.a = FirstInsert(@, ObjId(h), h)]
                 ELSE first)

a_remove_s_object(h) ==
    /\ objlock[h] = 0
    /\ LET r == IF poisoned THEN Res(FALSE, gs)
                ELSE a_remove_s_object_run(gs, objects[h], h)
       IN RanMap(Call("a_remove_s_object", h, -1, ObjId(h), r.ok, << >>, gs),
                 r.gs,
                 IF r.ok THEN [first EXCEPT !.s = Without(@, ObjId(h))]
                 ELSE first)

a_remove_a_object(h) ==
    /\ objlock[h] = 0
    /\ LET r == IF poisoned THEN Res(FALSE, gs)
                ELSE a_remove_a_object_run(gs, objects[h], h)
       IN RanMap(Call("a_remove_a_object", h, -1, ObjId(h), r.ok, << >>, gs),
                 r.gs,
                 IF r.ok THEN [first EXCEPT !.a = Without(@, ObjId(h))]
                 ELSE first)

\* The World handed to GameLoop::new: its static and its animated objects.
SceneS == <<1>>
SceneA == <<3>>

\* `for index in mask_indices { if let Err(e) = append_mask(..) {eprintln} }`
RECURSIVE append_masks_logged(_, _, _)
append_masks_logged(g, masks, id) ==
    IF masks = << >> THEN g
    ELSE append_masks_logged(append_mask(g, Head(masks), id).gs,
                             Tail(masks), id)

\* One iteration of the first loop of populate_global_state.  Indexing
\* s_z_index (255 slots) with z_index = 255 is out of bounds and panics.
populate_static(g, obj, h) ==
    LET id == ObjId(h) IN
    IF obj.z_index > NumZ - 1 THEN [panic |-> TRUE, gs |-> g]
    ELSE LET g1 == [g EXCEPT !.s_z_index[obj.z_index] = Append(@, id)]
             g2 == append_masks_logged(g1, obj.masks, id)
             g3 == [g2 EXCEPT !.s_identifiables = Append(@, id)]
         IN [panic |-> FALSE, gs |-> insert_s_map(g3, id, h)]

\* One iteration of the second loop of populate_global_state.
populate_animated(g, obj, h) ==
    LET id == ObjId(h) IN
    IF obj.z_index > NumZ - 1 THEN [panic |-> TRUE, gs |-> g]
    ELSE LET g1 == [g EXCEPT !.a_z_index[obj.z_index] = Append(@, id)]
             g2 == append_masks_logged(g1, obj.masks, id)
             g3 == [g2 EXCEPT !.a_identifiables = Append(@, id)]
         IN [panic |-> FALSE, gs |-> insert_a_map(g3, id, h)]

RECURSIVE populate_loop(_, _, _, _)
populate_loop(g, objs, hs, static) ==
    IF hs = << >> THEN [panic |-> FALSE, gs |-> g]
    ELSE LET r == IF static THEN populate_static(g, objs[Head(hs)], Head(hs))
                  ELSE populate_animated(g, objs[Head(hs)], Head(hs))
         IN IF r.panic THEN r ELSE populate_loop(r.gs, objs, Tail(hs), static)

populate_global_state_run(g, objs) ==
    LET r1 == populate_loop(g, objs, SceneS, TRUE)
    IN IF r1.panic THEN r1 ELSE populate_loop(r1.gs, objs, SceneA, FALSE)

\* populate_global_state holds the write lock from start to end; a panic
\* inside it (or finding the lock poisoned) unwinds with the lock poisoned.
populate_global_state ==
    /\ Room(gs)
    /\ \A h \in Range(SceneS) \cup Range(SceneA) : objlock[h] = 0
    /\ LET r == IF poisoned THEN [panic |-> TRUE, gs |-> gs]
                ELSE populate_global_state_run(gs, objects)
       IN /\ gs' = r.gs
          /\ poisoned' = (poisoned \/ r.panic)
          /\ last' = Call("populate_global_state", 0, -1, "", ~r.panic,
                          IF r.panic THEN <<"panic">> ELSE << >>, gs)
          /\ prev' = last
          /\ first' = [s |-> FirstInserts(first.s, r.gs.s_map),
                       a |-> FirstInserts(first.a, r.gs.a_map)]
          /\ UNCHANGED <<objects, pc, objlock, mv, list, script, out, input>>

\* The objects of the scene are created by the application with any
\* z_index and any mask vector.
InitFull ==
    /\ gs = GlobalState_default
    /\ poisoned = FALSE
    /\ \E z1 \in ZInputs, m1 \in MaskInputs, z3 \in ZInputs, m3 \in MaskInputs :
          objects = [DefaultObjects EXCEPT
                        ![1].z_index = z1, ![1].masks = m1,
                        ![3].z_index = z3, ![3].masks = m3]
    /\ last = NoCall
    /\ prev = NoCall
    /\ first = [s |-> EmptyMap, a |-> EmptyMap]
    /\ pc = [t \in Threads |-> Idle]
    /\ objlock = [h \in Handles |-> 0]
    /\ mv = NoMove
    /\ list = List_new
    /\ script = NoScript
    /\ input = NoInput
    /\ out = NoOut

NextFull ==
    \/ \E h \in Range(SceneS) : a_add_s_object(h)
    \/ \E h \in Range(SceneA) : a_add_a_object(h)
    \/ \E h \in Range(SceneS) : a_remove_s_object(h)
    \/ \E h \in Range(SceneA) : a_remove_a_object(h)
    \/ populate_global_state

SpecFull == InitFull /\ [][NextFull]_vars

\* ------------------------------------------------------------------------
\* Object lookup next to insertion, registration and removal (SpecObj)
\* ------------------------------------------------------------------------
\* The ids of the objects of the scene, per category.
ObjIdsS == {ObjId(h) : h \in Range(SceneS)}
ObjIdsA == {ObjId(h) : h \in Range(SceneA)}

\* The static object of the scene is created with any z_index.
InitObj ==
    /\ gs = GlobalState_default
    /\ poisoned = FALSE
    /\ \E z1 \in ZInputs : objects = [DefaultObjects EXCEPT ![1].z_index = z1]
    /\ last = NoCall
    /\ prev = NoCall
    /\ first = [s |-> EmptyMap, a |-> EmptyMap]
    /\ pc = [t \in Threads |-> Idle]
    /\ objlock = [h \in Handles |-> 0]
    /\ mv = NoMove
    /\ list = List_new
    /\ script = NoScript
    /\ input = NoInput
    /\ out = NoOut

NextObj ==
    \/ \E id \in ObjIdsS, h \in StaticHandles : insert_static_object(id, h)
    \/ \E id \in ObjIdsA, h \in AnimatedHandles : insert_animated_object(id, h)
    \/ \E id \in ObjIdsS : remove_static_object(id)
    \/ \E id \in ObjIdsA : remove_animated_object(id)
    \/ \E id \in ObjIdsS : get_static_object_call(id)
    \/ \E id \in ObjIdsA : get_animated_object_call(id)
    \/ \E h \in Range(SceneS) : a_add_s_object(h)
    \/ \E h \in Range(SceneA) : a_add_a_object(h)
    \/ \E h \in Range(SceneS) : a_remove_s_object(h)
    \/ \E h \in Range(SceneA) : a_remove_a_object(h)

SpecObj == InitObj /\ [][NextObj]_vars

GetOps == {"get_static_object", "get_animated_object"}

\* The calls that put an object into the map `get` reads, and those that
\* take it out.
InsertsFor(get) ==
    IF get = "get_static_object" THEN {"insert_static_object", "a_add_s_object"}
    ELSE {"insert_animated_object", "a_add_a_object"}

RemovesFor(get) ==
    IF get = "get_static_object" THEN {"remove_static_object", "a_remove_s_object"}
    ELSE {"remove_animated_object", "a_remove_a_object"}

MapOf(g, get) == IF get = "get_static_object" THEN g.s_map ELSE g.a_map

FirstOf(get) == IF get = "get_static_object" THEN first.s ELSE first.a

\* C11: get_object(category, id) returns the handle that was inserted for
\* id (by insert_object or by register_full) for as long as id has not been
\* removed, and a not-found error after remove_object or a successful
\* unregister_full; the failing lookup leaves the registry as it was.
C11_GetObjectContract ==
    last.op \in GetOps =>
        /\ gs = last.before
        /\ last.id \in DOMAIN FirstOf(last.op) =>
               last.ok /\ last.ret = <<FirstOf(last.op)[last.id]>>
        /\ last.id \notin DOMAIN FirstOf(last.op) =>
               ~last.ok /\ last.ret = << >>
        /\ (prev.op \in InsertsFor(last.op) /\ prev.ok /\ prev.id = last.id
              /\ prev.id \notin DOMAIN MapOf(prev.before, last.op))
               => last.ok /\ last.ret = <<prev.h>>
        /\ (prev.op \in RemovesFor(last.op) /\ prev.ok /\ prev.id = last.id)
               => ~last.ok

\* A lookup of an id fails right after remove_static_object or
\* a_remove_s_object took the id's entry out of the map.
C11_Witness ==
    /\ last.op = "get_static_object"
    /\ ~last.ok
    /\ prev.op \in {"remove_static_object", "a_remove_s_object"}
    /\ prev.ok
    /\ prev.id = last.id
    /\ prev.id \in DOMAIN prev.before.s_map

\* ------------------------------------------------------------------------
\* Properties of the compound bookkeeping (SpecFull)
\* ------------------------------------------------------------------------
AddOps == {"a_add_s_object", "a_add_a_object"}

InSomeRow(rows, id) == \E i \in DOMAIN rows : id \in Range(rows[i])

\* The id is in no mask row, no z-index row, no id-list and no map.
NotInRegistry(g, id) ==
    /\ ~InSomeRow(g.masks, id)
    /\ ~InSomeRow(g.s_z_index, id)
    /\ ~InSomeRow(g.a_z_index, id)
    /\ id \notin Range(g.s_identifiables)
    /\ id \notin Range(g.a_identifiables)
    /\ id \notin DOMAIN g.s_map
    /\ id \notin DOMAIN g.a_map

\* C2: calling register_full on an object that is already registered is a
\* no-op: every group list, the layer list, the id-list and the map are as
\* they were after the first registration.
C2_ReRegisterIsNoOp ==
    (/\ last.op \in AddOps
     /\ prev.op = last.op /\ prev.h = last.h /\ prev.ok) =>
        gs = last.before

AddThenRemove ==
    /\ \/ prev.op = "a_add_s_object" /\ last.op = "a_remove_s_object"
       \/ prev.op = "a_add_a_object" /\ last.op = "a_remove_a_object"
    /\ prev.h = last.h

\* C3 as stated: for every registry state and every object,
\* register_full(obj) followed by unregister_full(obj) leaves the whole
\* registry as it was before the registration.
C3_Original == AddThenRemove => gs = prev.before

\* C3 amended: for every registry state in which obj's id is in no group
\* list, layer list, id-list or map, register_full(obj) followed by
\* unregister_full(obj) leaves every group list, every layer list, both
\* id-lists and both maps exactly as they were before the registration.
C3_RoundTripWhenAbsent ==
    (AddThenRemove /\ NotInRegistry(prev.before, last.id)) =>
        gs = prev.before

C3_Witness ==
    /\ AddThenRemove
    /\ NotInRegistry(prev.before, last.id)
    /\ prev.ok /\ last.ok
    /\ Len(objects[last.h].masks) = 2
    /\ prev.before # GlobalState_default
    /\ last.before # gs

\* C4: after register_full(obj) succeeds on a registry that did not
\* contain obj's id, for every group g in 1..15 the id is in group g's list
\* if and only if g is in obj's collision_groups.
C4_GroupsMatchMasks ==
    (/\ last.op \in AddOps /\ last.ok
     /\ NotInRegistry(last.before, last.id)) =>
        \A g \in 1..15 :
            last.id \in Range(gs.masks[g - 1])
                <=> g \in Range(objects[last.h].masks)

C4_Witness ==
    /\ last.op = "a_add_a_object" /\ last.ok
    /\ NotInRegistry(last.before, last.id)
    /\ objects[last.h].masks = <<1, 15>>
    /\ MaskEntries(last.before) > 0

\* The objects the last call registered, with their category.
RegisteredByLast ==
    IF last.op = "a_add_s_object" /\ last.ok THEN {<<last.h, "s">>}
    ELSE IF last.op = "a_add_a_object" /\ last.ok THEN {<<last.h, "a">>}
    ELSE IF last.op = "populate_global_state" /\ last.ok
         THEN {<<h, "s">> : h \in Range(SceneS)}
                  \cup {<<h, "a">> : h \in Range(SceneA)}
    ELSE {}

\* C5: after an object is registered through register_full or through
\* populate_global_state, its id is in exactly one draw-layer list of its
\* category and get_layer(category, obj.draw_layer) returns a list that
\* contains it.
C5_InOwnLayerOnly ==
    \A p \in RegisteredByLast :
        LET h == p[1]
            id == ObjId(h)
            rows == IF p[2] = "s" THEN gs.s_z_index ELSE gs.a_z_index
            r == IF p[2] = "s"
                 THEN get_static_z_index_row(gs, objects[h].z_index)
                 ELSE get_animated_z_index_row(gs, objects[h].z_index)
        IN /\ Cardinality({i \in DOMAIN rows : id \in Range(rows[i])}) = 1
           /\ r.ok
           /\ id \in Range(r.val)

\* The objects the last registering call was given.
GivenToLast ==
    IF last.op \in AddOps THEN {last.h}
    ELSE IF last.op = "populate_global_state"
         THEN Range(SceneS) \cup Range(SceneA)
         ELSE {}

BadGroup(h) == \E i \in DOMAIN objects[h].masks : objects[h].masks[i] \notin 1..15

\* C12: a registering call (register_full or populate_global_state) that
\* meets a group index outside 1..15, or register_full a layer index outside
\* the registry's range, reports a failure to its caller.
C12_RangeErrorsReported ==
    /\ (\E h \in GivenToLast : BadGroup(h)) => ~last.ok
    /\ (last.op \in AddOps /\ objects[last.h].z_index \notin 1..255) => ~last.ok

\* C13: no registering call aborts: whatever the draw layer (0..255) and
\* the group indices of the objects, a_add_* and populate_global_state
\* complete or return an error value.
C13_RegistrationNeverPanics ==
    (last.op \in AddOps \/ last.op = "populate_global_state")
        => last.ret # <<"panic">>

\* ------------------------------------------------------------------------
\* The compound functions step by step, run by concurrent threads
\* ------------------------------------------------------------------------
\* a_add_* / a_remove_* lock the object, then call one public registry
\* function per mask, one for the z-index row and one for the id-list,
\* drop the object lock and call the map function.  Each of these calls
\* takes and releases the GLOBAL_STATE write lock on its own, so another
\* thread can run between any two of them.
CompoundOps ==
    {"a_add_s_object", "a_add_a_object", "a_remove_s_object",
     "a_remove_a_object"}

OpHandles(op) ==
    IF op \in {"a_add_s_object", "a_remove_s_object"}
    THEN Range(SceneS) ELSE Range(SceneA)

Return(t) == [pc EXCEPT ![t] = [Idle EXCEPT !.calls = pc[t].calls]]

\* `obj.lock()` and `get_id()`: blocks while another thread holds the lock.
Begin(t, op, h) ==
    /\ pc[t].phase = "idle"
    /\ pc[t].calls < MaxCalls
    /\ objlock[h] = 0
    /\ objlock' = [objlock EXCEPT ![h] = t]
    /\ pc' = [pc EXCEPT ![t] =
                 [op |-> op, h |-> h,
                  phase |-> IF objects[h].masks = << >> THEN "z" ELSE "masks",
                  i |-> 1, calls |-> pc[t].calls + 1]]
    /\ UNCHANGED <<gs, poisoned, objects, last, prev, first, mv, list, script, out, input>>

\* One iteration of the loop over get_masks(); `?` returns on an error and
\* the object lock is dropped with the guard.
MaskStep(t) ==
    /\ pc[t].phase = "masks"
    /\ LET h == pc[t].h
           masks == objects[h].masks
           r == IF poisoned THEN Res(FALSE, gs)
                ELSE IF pc[t].op \in AddOps
                THEN append_mask(gs, masks[pc[t].i], ObjId(h))
                ELSE remove_mask(gs, masks[pc[t].i], ObjId(h))
       IN /\ gs' = r.gs
          /\ IF ~r.ok
             THEN /\ pc' = Return(t)
                  /\ objlock' = [objlock EXCEPT ![h] = 0]
             ELSE /\ pc' = [pc EXCEPT ![t] =
                              IF pc[t].i = Len(masks)
                              THEN [@ EXCEPT !.phase = "z"]
                              ELSE [@ EXCEPT !.i = @ + 1]]
                  /\ UNCHANGED objlock
    /\ UNCHANGED <<poisoned, objects, last, prev, first, mv, list, script, out, input>>

\* Mutant of ZStep: the id-list call is left out and the map call follows
\* the z-index call.
ZStep_then_map(t) ==
    /\ pc[t].phase = "z"
    /\ LET h == pc[t].h
           z == objects[h].z_index
           id == ObjId(h)
           r == IF poisoned THEN Res(FALSE, gs)
                ELSE IF pc[t].op = "a_add_s_object"
                THEN append_static_z_index(gs, z, id)
                ELSE IF pc[t].op = "a_add_a_object"
                THEN append_animated_z_index(gs, z, id)
                ELSE IF pc[t].op = "a_remove_s_object"
                THEN remove_static_z_index(gs, z, id)
                ELSE remove_animated_z_index(gs, z, id)
       IN /\ gs' = r.gs
          /\ pc' = IF r.ok THEN [pc EXCEPT ![t].phase = "map"] ELSE Return(t)
          /\ objlock' = [objlock EXCEPT ![h] = 0]
    /\ UNCHANGED <<poisoned, objects, last, prev, first, mv, list, script, out, input>>

\* append_*_id_to_z_index_row / remove_*_z_index_from_row
ZStep(t) ==
    /\ pc[t].phase = "z"
    /\ LET h == pc[t].h
           z == objects[h].z_index
           id == ObjId(h)
           r == IF poisoned THEN Res(FALSE, gs)
                ELSE IF pc[t].op = "a_add_s_object"
                THEN append_static_z_index(gs, z, id)
                ELSE IF pc[t].op = "a_add_a_object"
                THEN append_animated_z_index(gs, z, id)
                ELSE IF pc[t].op = "a_remove_s_object"
                THEN remove_static_z_index(gs, z, id)
                ELSE remove_animated_z_index(gs, z, id)
       IN /\ gs' = r.gs
          /\ IF ~r.ok
             THEN /\ pc' = Return(t)
                  /\ objlock' = [objlock EXCEPT ![h] = 0]
             ELSE /\ pc' = [pc EXCEPT ![t].phase = "ident"]
                  /\ UNCHANGED objlock
    /\ UNCHANGED <<poisoned, objects, last, prev, first, mv, list, script, out, input>>

\* append_*_identifiable / remove_*_identifiable, then drop(lock_obj)
IdentStep(t) ==
    /\ pc[t].phase = "ident"
    /\ LET h == pc[t].h
           id == ObjId(h)
           r == IF poisoned THEN Res(FALSE, gs)
                ELSE IF pc[t].op = "a_add_s_object"
                THEN append_static_identifiable(gs, id)
                ELSE IF pc[t].op = "a_add_a_object"
                THEN append_animated_identifiable(gs, id)
                ELSE IF pc[t].op = "a_remove_s_object"
                THEN remove_static_identifiable(gs, id)
                ELSE remove_animated_identifiable(gs, id)
       IN /\ gs' = r.gs
          /\ pc' = IF r.ok THEN [pc EXCEPT ![t].phase = "map"] ELSE Return(t)
          /\ objlock' = [objlock EXCEPT ![h] = 0]
    /\ UNCHANGED <<poisoned, objects, last, prev, first, mv, list, script, out, input>>

\* insert_*_object / remove_*_object, after the object lock was dropped
MapStep(t) ==
    /\ pc[t].phase = "map"
    /\ LET h == pc[t].h
           id == ObjId(h)
       IN gs' = IF poisoned THEN gs
                ELSE IF pc[t].op = "a_add_s_object"
                THEN insert_s_map(gs, id, h)
                ELSE IF pc[t].op = "a_add_a_object"
                THEN insert_a_map(gs, id, h)
                ELSE IF pc[t].op = "a_remove_s_object"
                THEN remove_s_map(gs, id)
                ELSE remove_a_map(gs, id)
    /\ pc' = Return(t)
    /\ UNCHANGED <<poisoned, objects, last, prev, first, objlock, mv, list, script, out, input>>

NextConc ==
    \/ \E t \in Threads, op \in CompoundOps :
           \E h \in OpHandles(op) : Begin(t, op, h)
    \/ \E t \in Threads : MaskStep(t)
    \/ \E t \in Threads : ZStep(t)
    \/ \E t \in Threads : IdentStep(t)
    \/ \E t \in Threads : MapStep(t)

SpecConc == Init /\ [][NextConc]_vars

\* C1: in every reachable registry state, the states between the steps of
\* register_full and unregister_full included, an identifier is in a
\* category's id-list if and only if it is a key of that category's map.
C1_IdListMatchesMap ==
    /\ Range(gs.s_identifiables) = DOMAIN gs.s_map
    /\ Range(gs.a_identifiables) = DOMAIN gs.a_map

\* ------------------------------------------------------------------------
\* f32 arithmetic of the resolver
\* ------------------------------------------------------------------------
\* Multipliers (delta_time, the move factor, 0.9) are f32 values in [0, 1]
\* and are held exactly, as multiples of 2^-27.
One == 134217728

\* The f32 nearest to 0.1 (0.100000001490116...), as a multiple of 2^-27.
Tenth == 13421773

\* The f32 nearest to 0.9 (0.899999976158142...), as a multiple of 2^-27.
NineTenths == 120795952

\* `v.abs() <= 0.001` with v an f32 held in Units: 0.001 is 65.536 Units.
Epsilon == 65

\* Nesting depth of _safe_move the model follows.
MaxDepth == 256

Abs(n) == IF n < 0 THEN -n ELSE n

\* An f32 has a 24-bit significand: the distance between neighbouring f32
\* values around n / 2^27, in multiples of 2^-27, for 0 <= n < 2^27.
Ulp(n) ==
    IF n >= 67108864 THEN 8
    ELSE IF n >= 33554432 THEN 4
    ELSE IF n >= 16777216 THEN 2
    ELSE 1

\* Round to the nearest f32, ties to the even significand.
RoundF32(n) ==
    LET u == Ulp(n)
        q == n \div u
        r == n % u
    IN IF 2 * r < u THEN q * u
       ELSE IF 2 * r > u THEN (q + 1) * u
       ELSE IF q % 2 = 0 THEN q * u
       ELSE (q + 1) * u

\* `factor -= 0.1` on f32.
SubF32(a, b) == RoundF32(a - b)

\* a * f / 2^27 rounded to the nearest Unit, for 0 <= a < 2^30 and
\* 0 <= f <= 2^27, computed in 14-bit halves to stay inside 32 bits.
MulAbs(a, f) ==
    LET ah == a \div 16384
        al == a % 16384
        fh == f \div 16384
        fl == f % 16384
        mid == ah * fl + al * fh
        lo == al * fl
    IN 2 * ah * fh + (mid + (lo + 67108864) \div 16384) \div 8192

\* f32 product of a length and a multiplier.
MulF(a, f) == IF a < 0 THEN -MulAbs(-a, f) ELSE MulAbs(a, f)

\* Velocity::scale / Velocity::scale_mut.
scale(v, factor) == Vec2(MulF(v.x, factor), MulF(v.y, factor))

\* ------------------------------------------------------------------------
\* Collision test and movement (engine/mod.rs, scripts/mod.rs, utils/mod.rs)
\* ------------------------------------------------------------------------
\* Mutant of collision_cal::check_collision: boxes that touch overlap.
collision_cal_check_collision_touch(p1, s1, p2, s2) ==
    /\ p1.x <= p2.x + s2.x
    /\ p1.x + s1.x >= p2.x
    /\ p1.y <= p2.y + s2.y
    /\ p1.y + s1.y >= p2.y

\* utils::collision_cal::check_collision: the axis-aligned boxes
\* (position p, size s) overlap; boxes that only touch do not.
collision_cal_check_collision(p1, s1, p2, s2) ==
    /\ p1.x < p2.x + s2.x
    /\ p1.x + s1.x > p2.x
    /\ p1.y < p2.y + s2.y
    /\ p1.y + s1.y > p2.y

\* The body of the inner loop of AnimatedObject::check_collision for one id
\* of a mask row: the id is tested when it is not the mover's own and it is
\* in a category's id-list and map.
collides_with_self(g, objs, h, new_point, id) ==
    \/ /\ id \in Range(g.s_identifiables)
       /\ get_static_object(g, id).ok
       /\ LET o == objs[get_static_object(g, id).val[1]]
          IN collision_cal_check_collision(new_point, objs[h].size,
                                           o.pos, o.size)
    \/ /\ id \in Range(g.a_identifiables)
       /\ get_animated_object(g, id).ok
       /\ LET o == objs[get_animated_object(g, id).val[1]]
          IN collision_cal_check_collision(new_point, objs[h].size,
                                           o.pos, o.size)

\* Mutant of collides_with: an id of an id-list that is a key of no map
\* counts as an overlap.
collides_with_dangling(g, objs, h, new_point, id) ==
    /\ id # ObjId(h)
    /\ \/ /\ id \in Range(g.s_identifiables)
          /\ get_static_object(g, id).ok =>
                 LET o == objs[get_static_object(g, id).val[1]]
                 IN collision_cal_check_collision(new_point, objs[h].size,
                                                  o.pos, o.size)
       \/ /\ id \in Range(g.a_identifiables)
          /\ get_animated_object(g, id).ok =>
                 LET o == objs[get_animated_object(g, id).val[1]]
                 IN collision_cal_check_collision(new_point, objs[h].size,
                                                  o.pos, o.size)

collides_with(g, objs, h, new_point, id) ==
    /\ id # ObjId(h)
    /\ \/ /\ id \in Range(g.s_identifiables)
          /\ get_static_object(g, id).ok
          /\ LET o == objs[get_static_object(g, id).val[1]]
             IN collision_cal_check_collision(new_point, objs[h].size,
                                              o.pos, o.size)
       \/ /\ id \in Range(g.a_identifiables)
          /\ get_animated_object(g, id).ok
          /\ LET o == objs[get_animated_object(g, id).val[1]]
             IN collision_cal_check_collision(new_point, objs[h].size,
                                              o.pos, o.size)

\* AnimatedObject::check_collision: `for row in 1..15` visits the rows 1 to
\* 14.  With the GLOBAL_STATE lock poisoned (p) every get_mask_row is Err
\* and every row is skipped.
check_collision(g, p, objs, h, new_point) ==
    /\ ~p
    /\ \E row \in 1..14 :
          LET r == get_mask_row(g, row)
          IN r.ok /\ \E i \in DOMAIN r.val :
                        collides_with(g, objs, h, new_point, r.val[i])

\* The loop of AnimatedObject::move_object from `factor` on; `tests` counts
\* the collision tests made so far.
RECURSIVE move_loop(_, _, _, _, _, _, _)
move_loop(g, p, objs, h, vel, factor, tests) ==
    IF ~(factor >= Tenth)
    THEN [blocked |-> TRUE, obj |-> objs[h], tests |-> tests]
    ELSE LET scaled_vel == scale(vel, factor)
             new_pos == Point(objs[h].pos.x + scaled_vel.x,
                              objs[h].pos.y + scaled_vel.y, objs[h].pos.deg)
         IN IF ~check_collision(g, p, objs, h, new_pos)
            THEN [blocked |-> FALSE,
                  obj |-> [objs[h] EXCEPT !.pos = new_pos,
                                          !.velocity = scale(@, factor)],
                  tests |-> tests + 1]
            ELSE move_loop(g, p, objs, h, vel, SubF32(factor, Tenth),
                           tests + 1)

\* AnimatedObject::move_object.
move_object_run_halt(g, p, objs, h, delta_time) ==
    LET r == move_loop(g, p, objs, h, scale(objs[h].velocity, delta_time),
                       One, 0)
    IN IF r.blocked THEN [r EXCEPT !.obj.velocity = Vec2(0, 0)] ELSE r

\* Mutant of move_object: the velocity the object had before the call is
\* put back after the move.
move_object_run_restore(g, p, objs, h, delta_time) ==
    LET r == move_loop(g, p, objs, h, scale(objs[h].velocity, delta_time),
                       One, 0)
    IN [r EXCEPT !.obj.velocity = objs[h].velocity]

\* Mutant of move_object: the object is turned to face the way it moved.
move_object_run_turn(g, p, objs, h, delta_time) ==
    LET r == move_loop(g, p, objs, h, scale(objs[h].velocity, delta_time),
                       One, 0)
    IN IF r.blocked THEN r ELSE [r EXCEPT !.obj.pos.deg = 0]

move_object_run(g, p, objs, h, delta_time) ==
    move_loop(g, p, objs, h, scale(objs[h].velocity, delta_time), One, 0)

\* Mutant of _safe_move: a candidate that collides is taken as the new
\* position before the retry.
safe_move_call_push(g, p, objs, h, delta_time, st) ==
    LET obj == st.obj IN
    IF st.done THEN st
    ELSE IF Abs(obj.velocity.x) <= Epsilon /\ Abs(obj.velocity.y) <= Epsilon
    THEN [st EXCEPT !.done = TRUE]
    ELSE LET virtual_pos ==
                 Point(obj.pos.x + MulF(obj.velocity.x, delta_time),
                       obj.pos.y + MulF(obj.velocity.y, delta_time),
                       obj.pos.deg)
         IN IF ~check_collision(g, p, objs, h, virtual_pos)
            THEN [obj |-> [obj EXCEPT !.pos = virtual_pos],
                  steps |-> st.steps + 1, moved |-> TRUE, done |-> TRUE]
            ELSE [obj |-> [obj EXCEPT !.velocity = scale(@, NineTenths),
                                      !.pos = virtual_pos],
                  steps |-> st.steps + 1, moved |-> FALSE, done |-> FALSE]

\* One call of scripts::_safe_move on the state `st` of the recursion: the
\* object, the number of positions tried, whether it moved and whether the
\* recursion has returned.
safe_move_call(g, p, objs, h, delta_time, st) ==
    LET obj == st.obj IN
    IF st.done THEN st
    ELSE IF Abs(obj.velocity.x) <= Epsilon /\ Abs(obj.velocity.y) <= Epsilon
    THEN [st EXCEPT !.done = TRUE]
    ELSE LET virtual_pos ==
                 Point(obj.pos.x + MulF(obj.velocity.x, delta_time),
                       obj.pos.y + MulF(obj.velocity.y, delta_time),
                       obj.pos.deg)
         IN IF ~check_collision(g, p, objs, h, virtual_pos)
            THEN [obj |-> [obj EXCEPT !.pos = virtual_pos],
                  steps |-> st.steps + 1, moved |-> TRUE, done |-> TRUE]
            ELSE [obj |-> [obj EXCEPT !.velocity = scale(@, NineTenths)],
                  steps |-> st.steps + 1, moved |-> FALSE, done |-> FALSE]

\* Up to n nested calls of _safe_move, the first half before the second.
RECURSIVE safe_move_calls(_, _, _, _, _, _, _)
safe_move_calls(g, p, objs, h, delta_time, st, n) ==
    IF st.done \/ n = 0 THEN st
    ELSE IF n = 1 THEN safe_move_call(g, p, objs, h, delta_time, st)
    ELSE safe_move_calls(g, p, objs, h, delta_time,
                         safe_move_calls(g, p, objs, h, delta_time, st,
                                         n \div 2),
                         n - n \div 2)

\* scripts::_safe_move: it calls itself with the velocity scaled by 0.9
\* until the position is free or the velocity is at most 0.001; a velocity
\* below 2^14 pixels gets there in fewer than MaxDepth calls.
_safe_move(g, p, objs, h, delta_time) ==
    safe_move_calls(g, p, objs, h, delta_time,
                    [obj |-> objs[h], steps |-> 0, moved |-> FALSE,
                     done |-> FALSE],
                    MaxDepth)

\* PhysicsObject::process for AnimatedObject.
process(g, p, objs, h, delta_time) == _safe_move(g, p, objs, h, delta_time)

\* GameLoop::update_game: process every animated object of the scene in
\* list order, each seeing the positions the earlier ones committed.  The
\* result carries the objects and the record of the last process call.
RECURSIVE update_loop(_, _, _, _, _, _)
update_loop(g, p, objs, hs, delta_time, rec) ==
    IF hs = << >> THEN [objs |-> objs, rec |-> rec]
    ELSE LET h == Head(hs)
             r == process(g, p, objs, h, delta_time)
         IN update_loop(g, p, [objs EXCEPT ![h] = r.obj], Tail(hs), delta_time,
                        [rec EXCEPT !.op = "process", !.h = h,
                                    !.dt = delta_time, !.start = objs[h],
                                    !.blocked = (~r.moved /\ r.steps > 0),
                                    !.tests = r.steps, !.g = g, !.p = p])

\* Mutant of update_game: every object is processed against the positions
\* all objects had when the frame started.
update_game_run_snapshot(g, p, objs, hs, delta_time, rec) ==
    [objs |-> [h \in DOMAIN objs |->
                  IF h \in Range(hs)
                  THEN process(g, p, objs, h, delta_time).obj ELSE objs[h]],
     rec |-> [update_loop(g, p, objs, hs, delta_time, rec).rec
                 EXCEPT !.objs0 = objs, !.start = objs[hs[Len(hs)]],
                        !.prior = Prior(rec)]]

\* GameLoop::update_game on the scene's animated objects hs; the record
\* keeps the objects as they were when the frame started.
update_game_run(g, p, objs, hs, delta_time, rec) ==
    LET r == update_loop(g, p, objs, hs, delta_time, rec)
    IN [r EXCEPT !.rec.objs0 = objs, !.rec.prior = Prior(rec)]

\* ------------------------------------------------------------------------
\* The resolver on a registered scene (SpecMove)
\* ------------------------------------------------------------------------
\* Number of resolver calls in a run.
MaxMoves == 2

\* delta_time values: one second and half a second.
DeltaInputs == {One, One \div 2}

\* The scene: a static obstacle (handle 1), the mover (handle 3) to its left
\* and a second movable object (handle 4) to the left of the mover, all 50
\* by 50 pixels on one line.  The obstacle's left edge is at the mover's
\* right edge (300), 15 or 75 pixels further, or far away.
ObstacleX == {300, 315, 375, 1000}
MoverMasks == {<<1>>, <<15>>}
ObstacleMasks == {<<1>>, <<2>>, <<15>>}
MoverVelocities == {Vec2(Px(100), 0), Vec2(Px(10), 0)}

SceneObjects(x1, m1, m3, v3) ==
    [DefaultObjects EXCEPT
        ![1] = [z_index |-> 1, masks |-> m1,
                pos |-> Point(Px(x1), Px(250), 0),
                size |-> Vec2(Px(50), Px(50)), velocity |-> Vec2(0, 0)],
        ![3] = [z_index |-> 1, masks |-> m3,
                pos |-> Point(Px(250), Px(250), 45),
                size |-> Vec2(Px(50), Px(50)), velocity |-> v3],
        ![4] = [z_index |-> 1, masks |-> <<1>>,
                pos |-> Point(Px(100), Px(250), 0),
                size |-> Vec2(Px(50), Px(50)),
                velocity |-> Vec2(Px(120), 0)]]

\* The registry after a_add_s_object(1), a_add_a_object(3), a_add_a_object(4).
RegisterScene(objs) ==
    LET g1 == a_add_s_object_run(GlobalState_default, objs[1], 1).gs
        g3 == a_add_a_object_run(g1, objs[3], 3).gs
    IN a_add_a_object_run(g3, objs[4], 4).gs

InitMove ==
    /\ \E x1 \in ObstacleX, m1 \in ObstacleMasks, m3 \in MoverMasks,
          v3 \in MoverVelocities :
          /\ objects = SceneObjects(x1, m1, m3, v3)
          /\ gs = RegisterScene(SceneObjects(x1, m1, m3, v3))
    /\ poisoned = FALSE
    /\ last = NoCall
    /\ prev = NoCall
    /\ first = [s |-> gs.s_map, a |-> gs.a_map]
    /\ pc = [t \in Threads |-> Idle]
    /\ objlock = [h \in Handles |-> 0]
    /\ mv = NoMove
    /\ list = List_new
    /\ script = NoScript
    /\ input = NoInput
    /\ out = NoOut

\* A caller holding the object calls move_object(delta_time) on it.
move_object(h, delta_time) ==
    /\ mv.moves < MaxMoves
    /\ objlock[h] = 0
    /\ LET r == move_object_run(gs, poisoned, objects, h, delta_time)
       IN /\ objects' = [objects EXCEPT ![h] = r.obj]
          /\ mv' = [op |-> "move_object", h |-> h, dt |-> delta_time,
                    start |-> objects[h], blocked |-> r.blocked,
                    tests |-> r.tests, moves |-> mv.moves + 1,
                    g |-> gs, p |-> poisoned, objs0 |-> objects,
                    prior |-> Prior(mv)]
    /\ UNCHANGED <<gs, poisoned, last, prev, first, pc, objlock, list, script,
                   out, input>>

\* One frame: GameLoop::update_game(delta_time).
update_game(delta_time) ==
    /\ mv.moves < MaxMoves
    /\ \A h \in Range(SceneA) : objlock[h] = 0
    /\ LET r == update_game_run(gs, poisoned, objects, SceneA, delta_time, mv)
       IN /\ objects' = r.objs
          /\ mv' = [r.rec EXCEPT !.moves = mv.moves + 1]
    /\ UNCHANGED <<gs, poisoned, last, prev, first, pc, objlock, list, script,
                   out, input>>

NextMove ==
    \/ \E h \in AnimatedHandles, dt \in DeltaInputs : move_object(h, dt)
    \/ \E dt \in DeltaInputs : update_game(dt)

SpecMove == InitMove /\ [][NextMove]_vars

\* ------------------------------------------------------------------------
\* Properties of the resolver (SpecMove)
\* ------------------------------------------------------------------------
\* The objects as they were when the last resolver call started: the call
\* changes the mover only.
Before == [objects EXCEPT ![mv.h] = mv.start]

\* velocity * delta_time of the last call.
Displacement == scale(mv.start.velocity, mv.dt)

\* k tenths of the length n, to the nearest Unit.
TenthOf(n, k) ==
    IF n < 0 THEN -((-n * k + 5) \div 10) ELSE (n * k + 5) \div 10

\* The candidate position of the last call at factor k / 10.
CandAt(k) ==
    Point(mv.start.pos.x + TenthOf(Displacement.x, k),
          mv.start.pos.y + TenthOf(Displacement.y, k), mv.start.pos.deg)

\* The collision test reports an overlap for the candidate at factor k / 10.
CollidesAt(k) == check_collision(gs, poisoned, Before, mv.h, CandAt(k))

\* Equal up to the rounding of f32 arithmetic (16 Units = 2^-12 pixel).
Tol == 16

Near(a, b) == Abs(a.x - b.x) <= Tol /\ Abs(a.y - b.y) <= Tol

\* The object behind handle q is in a category's id-list and map.
InRegistry(g, q) ==
    \/ ObjId(q) \in Range(g.s_identifiables) /\ get_static_object(g, ObjId(q)).ok
    \/ ObjId(q) \in Range(g.a_identifiables)
         /\ get_animated_object(g, ObjId(q)).ok

InGroup(g, q, row) == ObjId(q) \in Range(get_mask_row(g, row).val)

SharesGroup(g, a, b) == \E row \in 1..15 : InGroup(g, a, row) /\ InGroup(g, b, row)

\* The box of the mover put at `pos` overlaps the box of object q.
OverlapsAt(pos, q) ==
    collision_cal_check_collision(pos, mv.start.size, Before[q].pos,
                                  Before[q].size)

\* C14: when the candidate at factor 1.0 collides and the candidate at some
\* factor of 0.9, 0.8, .., 0.1 does not, move_object returns false (not
\* blocked) and, with f the largest such factor, the object ends at
\* start + velocity * delta_time * f with velocity * f.
C14_LargestFreeFactor ==
    (mv.op = "move_object" /\ CollidesAt(10)
       /\ \E k \in 1..9 : ~CollidesAt(k))
    => LET f == CHOOSE k \in 1..9 :
                    ~CollidesAt(k) /\ \A j \in (k + 1)..9 : CollidesAt(j)
       IN /\ ~mv.blocked
          /\ Near(objects[mv.h].pos, CandAt(f))
          /\ Near(objects[mv.h].velocity,
                  Vec2(TenthOf(mv.start.velocity.x, f),
                       TenthOf(mv.start.velocity.y, f)))

C16_BlockedFrameLeavesObject ==
    (mv.op = "process" /\ mv.blocked)
    => /\ objects[mv.h].pos = mv.start.pos
       /\ objects[mv.h].velocity = mv.start.velocity

\* No movable object overlaps another registered object it shares a group
\* with.
NoOverlap(objs) ==
    \A h \in AnimatedHandles : \A q \in Handles \ {h} :
        (InRegistry(gs, h) /\ InRegistry(gs, q) /\ SharesGroup(gs, h, q))
        => ~collision_cal_check_collision(objs[h].pos, objs[h].size,
                                          objs[q].pos, objs[q].size)

\* C17: a move_object call that starts with no movable object overlapping
\* a registered object of one of its groups (1..15) ends with none
\* overlapping, so no sequence of moves produces such an overlap.
C17_MovesKeepApart ==
    (mv.op = "move_object" /\ NoOverlap(Before)) => NoOverlap(objects)

\* C18: the collision test never counts the mover itself: when the mover is
\* listed in a group and no other listed object overlaps the candidate at
\* factor 1.0, move_object returns false having moved by the full step,
\* with the velocity unchanged.
C18_SelfNeverCounts ==
    (/\ mv.op = "move_object"
     /\ \E row \in 1..15 : InGroup(gs, mv.h, row)
     /\ \A q \in Handles \ {mv.h} :
            (\E row \in 1..15 : InGroup(gs, q, row)) => ~OverlapsAt(CandAt(10), q))
    => /\ ~mv.blocked
       /\ mv.tests = 1
       /\ objects[mv.h].pos = CandAt(10)
       /\ objects[mv.h].velocity = mv.start.velocity

\* The mover is listed in a group, and its candidate at factor 1.0 overlaps
\* the box it started from and nothing else.
C18_Witness ==
    /\ mv.op = "move_object"
    /\ \E row \in 1..15 : InGroup(gs, mv.h, row)
    /\ collision_cal_check_collision(CandAt(10), mv.start.size,
                                     mv.start.pos, mv.start.size)
    /\ ~mv.blocked
    /\ mv.tests = 1

\* C19: the collision test scans every group 1..15: a registered object
\* other than the mover that is listed in group 15 and overlaps the
\* candidate at factor 1.0 makes the test report an overlap, so the move
\* does not commit at factor 1.0.
C19_Group15Scanned ==
    (/\ mv.op = "move_object"
     /\ \E q \in Handles \ {mv.h} :
            InRegistry(gs, q) /\ InGroup(gs, q, 15) /\ OverlapsAt(CandAt(10), q))
    => (mv.blocked \/ mv.tests > 1)

\* C20: an object is an obstacle for the mover only if the two share a
\* group: when move_object was blocked or slowed down, an object sharing a
\* group with the mover overlaps the candidate at factor 1.0.
C20_OnlySharedGroupsBlock ==
    (mv.op = "move_object" /\ (mv.blocked \/ mv.tests > 1))
    => \E q \in Handles \ {mv.h} :
           SharesGroup(gs, mv.h, q) /\ OverlapsAt(CandAt(10), q)

\* ------------------------------------------------------------------------
\* The resolver on a registry that lost map entries or whose lock is poisoned
\* ------------------------------------------------------------------------
\* The obstacle (object 1) gets any z_index: populate_global_state panics
\* on z_index 255 and leaves the GLOBAL_STATE lock poisoned.
FaultZ == {1, 255}

\* The obstacle stands right of the mover, in the way of its first step.
FaultX == 300

\* The registry after a_add_s_object(1) and a_add_a_object(3); object 4 is
\* not registered.
RegisterPair(objs) ==
    a_add_a_object_run(a_add_s_object_run(GlobalState_default, objs[1], 1).gs,
                       objs[3], 3).gs

InitFault ==
    /\ \E m1 \in ObstacleMasks, z1 \in FaultZ :
          LET objs == [SceneObjects(FaultX, m1, <<1>>, Vec2(Px(100), 0))
                           EXCEPT ![1].z_index = z1]
          IN /\ objects = objs
             /\ gs = RegisterPair(objs)
    /\ poisoned = FALSE
    /\ last = NoCall
    /\ prev = NoCall
    /\ first = [s |-> gs.s_map, a |-> gs.a_map]
    /\ pc = [t \in Threads |-> Idle]
    /\ objlock = [h \in Handles |-> 0]
    /\ mv = NoMove
    /\ list = List_new
    /\ script = NoScript
    /\ input = NoInput
    /\ out = NoOut

\* The application removes map entries with the granular functions, runs
\* populate_global_state (GameLoop::new) and moves the objects.
NextFault ==
    \/ \E h \in Range(SceneA), dt \in DeltaInputs : move_object(h, dt)
    \/ \E dt \in DeltaInputs : update_game(dt)
    \/ \E h \in Range(SceneS) : remove_static_object(ObjId(h))
    \/ \E h \in Range(SceneA) : remove_animated_object(ObjId(h))
    \/ populate_global_state

SpecFault == InitFault /\ [][NextFault]_vars

\* The id is a key of neither map of the registry g.
Dangling(g, id) == id \notin DOMAIN g.s_map /\ id \notin DOMAIN g.a_map

\* The sequence s without the ids that are keys of neither map.
RECURSIVE WithoutDangling(_, _)
WithoutDangling(g, s) ==
    IF s = << >> THEN << >>
    ELSE IF Dangling(g, Head(s)) THEN WithoutDangling(g, Tail(s))
    ELSE <<Head(s)>> \o WithoutDangling(g, Tail(s))

\* The registry g with those ids taken out of every group list.
Purged(g) ==
    [g EXCEPT !.masks = [i \in DOMAIN g.masks |-> WithoutDangling(g, @[i])]]

\* C21: an id of a group list that is a key of neither map is skipped by
\* the collision test: move_object returns, and returns and leaves the
\* object exactly as it does on the registry without that id in the groups.
C21_DanglingIdSkipped ==
    mv.op = "move_object" =>
        LET r == move_object_run(Purged(mv.g), mv.p, Before, mv.h, mv.dt)
        IN /\ mv.blocked = r.blocked
           /\ objects[mv.h] = r.obj
           /\ mv.tests = r.tests

\* A move went at full step through the place of an object whose id is in
\* a scanned group list and in an id-list but is a key of no map.
C21_Witness ==
    /\ mv.op = "move_object"
    /\ ~mv.p
    /\ \E q \in Handles \ {mv.h} :
          /\ Dangling(mv.g, ObjId(q))
          /\ \E row \in 1..14 : InGroup(mv.g, q, row)
          /\ ObjId(q) \in Range(mv.g.s_identifiables)
          /\ OverlapsAt(objects[mv.h].pos, q)
    /\ ~mv.blocked
    /\ mv.tests = 1

\* C25: a move made while the GLOBAL_STATE lock is poisoned, when every
\* registry read of the collision test fails, does not take a candidate
\* position as free: it commits no position.
C25_PoisonNeverFree ==
    (mv.op = "move_object" /\ mv.p) => objects[mv.h].pos = mv.start.pos

\* ------------------------------------------------------------------------
\* The velocity over a sequence of moves (SpecMove)
\* ------------------------------------------------------------------------
\* `factor` at the n-th collision test of move_object: 1.0 less n - 1 times
\* 0.1, each subtraction rounded to f32.
RECURSIVE FactorAt(_)
FactorAt(n) == IF n <= 1 THEN One ELSE SubF32(FactorAt(n - 1), Tenth)

\* No component of any object's velocity grows in magnitude in this step.
VelocityShrinks ==
    \A h \in Handles :
        /\ Abs(objects'[h].velocity.x) <= Abs(objects[h].velocity.x)
        /\ Abs(objects'[h].velocity.y) <= Abs(objects[h].velocity.y)

\* C22: after a not-blocked move_object at factor f the velocity is the
\* velocity before the call times f, and in no step of a run does the
\* magnitude of a velocity component increase.
C22_VelocityNeverRestored ==
    /\ []((mv.op = "move_object" /\ ~mv.blocked) =>
             objects[mv.h].velocity =
                 scale(mv.start.velocity, FactorAt(mv.tests)))
    /\ [][VelocityShrinks]_vars

\* A second move went at a factor below 1.0 and left a smaller velocity.
C22_Witness ==
    /\ mv.op = "move_object"
    /\ mv.moves = 2
    /\ ~mv.blocked
    /\ mv.tests > 1
    /\ Abs(objects[mv.h].velocity.x) < Abs(mv.start.velocity.x)

\* The candidate position of the n-th collision test of the last call.
TestedAt(n) ==
    LET d == scale(Displacement, FactorAt(n))
    IN Point(mv.start.pos.x + d.x, mv.start.pos.y + d.y, mv.start.pos.deg)

\* C30: move_object tests the factors 1.0, 0.9, .., 0.1 in strictly
\* decreasing order and none below 0.1, commits at the first factor whose
\* candidate is free, gives up only after the test at factor 0.1, and so
\* makes at most ten collision tests.
C30_TenFactorsThenGiveUp ==
    mv.op = "move_object" =>
        /\ mv.tests <= 10
        /\ \A n \in 1..mv.tests :
              /\ FactorAt(n) >= Tenth
              /\ n > 1 => FactorAt(n) < FactorAt(n - 1)
        /\ \A n \in 1..(mv.tests - 1) :
              check_collision(mv.g, mv.p, Before, mv.h, TestedAt(n))
        /\ ~mv.blocked => objects[mv.h].pos = TestedAt(mv.tests)
        /\ mv.blocked => mv.tests = 10

\* C33: move_object changes the x and y of the moving object's position
\* and its velocity only: its rotation, size, masks and z_index, every
\* other object and the registry are as they were before the call, blocked
\* or not.
C33_MoveFrame ==
    mv.op = "move_object" =>
        /\ objects[mv.h].pos.deg = mv.start.pos.deg
        /\ objects[mv.h].size = mv.start.size
        /\ objects[mv.h].masks = mv.start.masks
        /\ objects[mv.h].z_index = mv.start.z_index
        /\ \A q \in Handles \ {mv.h} : objects[q] = mv.objs0[q]
        /\ gs = mv.g
        /\ poisoned = mv.p

\* A rotated object moved: its position and its velocity changed.
C33_Witness ==
    /\ mv.op = "move_object"
    /\ ~mv.blocked
    /\ mv.start.pos.deg # 0
    /\ objects[mv.h].pos.x # mv.start.pos.x
    /\ objects[mv.h].velocity # mv.start.velocity

\* C37: a move_object call that follows a blocked move_object call on the
\* same object with the same delta_time, nothing else having changed in
\* between, is blocked too and leaves position and velocity as they were.
C37_BlockedStaysBlocked ==
    (/\ mv.op = "move_object"
     /\ mv.prior.op = "move_object"
     /\ mv.prior.blocked
     /\ mv.prior.h = mv.h
     /\ mv.prior.dt = mv.dt)
    => /\ mv.blocked
       /\ objects[mv.h].pos = mv.start.pos
       /\ objects[mv.h].velocity = mv.start.velocity

\* A moving object was blocked twice in a row.
C37_Witness ==
    /\ mv.op = "move_object"
    /\ mv.prior.op = "move_object"
    /\ mv.prior.blocked
    /\ mv.prior.h = mv.h
    /\ mv.prior.dt = mv.dt
    /\ mv.blocked
    /\ mv.start.velocity # Vec2(0, 0)

\* The velocity v scaled n times by 0.9.
RECURSIVE ShrunkBy(_, _)
ShrunkBy(v, n) ==
    IF n = 0 \/ v = Vec2(0, 0) THEN v
    ELSE IF n = 1 THEN scale(v, NineTenths)
    ELSE ShrunkBy(ShrunkBy(v, n \div 2), n - n \div 2)

\* Both components of the velocity are at most 0.001 in magnitude.
Tiny(v) == Abs(v.x) <= Epsilon /\ Abs(v.y) <= Epsilon

\* The candidate position of the n-th try of the last process call.
TriedAt(n) ==
    LET v == ShrunkBy(mv.start.velocity, n - 1)
    IN Point(mv.start.pos.x + MulF(v.x, mv.dt),
             mv.start.pos.y + MulF(v.y, mv.dt), mv.start.pos.deg)

\* What the last process call returned.
Returned == process(mv.g, mv.p, Before, mv.h, mv.dt)

\* The tries of the last process call that were followed by a retry.
Retried == 1..(IF Returned.moved THEN Returned.steps - 1 ELSE Returned.steps)

\* C38: process returns: every retry scales the velocity by 0.9, a retry
\* is made only after a candidate that collides and while a component of
\* the velocity is above 0.001, and on return the position is as it was or
\* is a candidate that passed the collision test.
C38_SafeMoveTerminates ==
    mv.op = "process" =>
        /\ Returned.done
        /\ Returned.steps < MaxDepth
        /\ objects[mv.h].velocity
               = ShrunkBy(mv.start.velocity, Cardinality(Retried))
        /\ \A n \in Retried :
               /\ ~Tiny(ShrunkBy(mv.start.velocity, n - 1))
               /\ check_collision(mv.g, mv.p, Before, mv.h, TriedAt(n))
        /\ IF Returned.moved
           THEN /\ ~Tiny(ShrunkBy(mv.start.velocity, Returned.steps - 1))
                /\ objects[mv.h].pos = TriedAt(Returned.steps)
                /\ ~check_collision(mv.g, mv.p, Before, mv.h,
                                    objects[mv.h].pos)
           ELSE /\ objects[mv.h].pos = mv.start.pos
                /\ Tiny(objects[mv.h].velocity)

\* process moved the object after retries / gave up after retries.
C38_Witness ==
    /\ mv.op = "process"
    /\ Returned.moved
    /\ Returned.steps >= 3
    /\ objects[mv.h].pos # mv.start.pos

C38_GaveUp ==
    /\ mv.op = "process"
    /\ ~Returned.moved
    /\ Returned.steps >= 3

\* ------------------------------------------------------------------------
\* collision_cal::check_collision as a function of two objects (SpecOverlap)
\* ------------------------------------------------------------------------
\* check_collision(obj1, obj2) on the tuples (position, size, shape): it
\* reads x and y of the positions and the sizes, never deg or the shape.
overlaps(obj1, obj2) ==
    collision_cal_check_collision(obj1[1], obj1[2], obj2[1], obj2[2])

\* The objects handed to it: positions on a grid of 5 pixels, two rotations,
\* two sizes and the two shapes CustomShape generates.
CoordInputs == {0, 5, 10, 20}
DegInputs == {0, 45}
SizeInputs == {Vec2(Px(10), Px(10)), Vec2(Px(5), Px(20))}
ShapeInputs == {"rectangle", "triangle"}

BoxInputs ==
    {<<[x |-> Px(x), y |-> Px(y), deg |-> deg], size, shape>> :
        x \in CoordInputs, y \in CoordInputs, deg \in DegInputs,
        size \in SizeInputs, shape \in ShapeInputs}

InitOverlap ==
    /\ gs = GlobalState_default
    /\ poisoned = FALSE
    /\ objects = DefaultObjects
    /\ last = NoCall
    /\ prev = NoCall
    /\ first = [s |-> EmptyMap, a |-> EmptyMap]
    /\ pc = [t \in Threads |-> Idle]
    /\ objlock = [h \in Handles |-> 0]
    /\ mv = NoMove
    /\ list = List_new
    /\ script = NoScript
    /\ input = NoInput
    /\ \E a \in BoxInputs, b \in BoxInputs :
          out = [op |-> "input", a |-> a, b |-> b, ret |-> FALSE]

\* check_collision(obj1, obj2) is called on the two objects.
check_collision_call ==
    /\ out.op = "input"
    /\ out' = [out EXCEPT !.op = "check_collision",
                          !.ret = overlaps(out.a, out.b)]
    /\ UNCHANGED <<gs, poisoned, objects, last, prev, first, pc, objlock, mv,
                   list, script, input>>

NextOverlap == check_collision_call

SpecOverlap == InitOverlap /\ [][NextOverlap]_vars

\* The box (position, size) of an object as (x, y, w, h) in pixels.
BoxOf(obj) == <<obj[1].x, obj[1].y, obj[2].x, obj[2].y>>

PxBox(x, y, w, h) == <<Px(x), Px(y), Px(w), Px(h)>>

\* The four strict inequalities on the boxes a and b.
Intersect(a, b) ==
    /\ a[1] < b[1] + b[3]
    /\ a[1] + a[3] > b[1]
    /\ a[2] < b[2] + b[4]
    /\ a[2] + a[4] > b[2]

\* The boxes a and b meet along an edge and nowhere inside.
TouchOnly(a, b) ==
    \/ a[1] + a[3] = b[1]
    \/ b[1] + b[3] = a[1]
    \/ a[2] + a[4] = b[2]
    \/ b[2] + b[4] = a[2]

\* C23: check_collision(A, B) is true exactly when the four strict
\* inequalities hold on the boxes, whatever the rotations and the shapes;
\* boxes that only touch do not overlap, (0,0,10,10) and (5,5,10,10)
\* overlap, (0,0,10,10) and (20,20,10,10) do not, and the result is the
\* same with A and B exchanged.
C23_OverlapIsStrictAabb ==
    out.op = "check_collision" =>
        LET a == BoxOf(out.a)
            b == BoxOf(out.b)
        IN /\ out.ret <=> Intersect(a, b)
           /\ TouchOnly(a, b) => ~out.ret
           /\ (a = PxBox(0, 0, 10, 10) /\ b = PxBox(5, 5, 10, 10)) => out.ret
           /\ (a = PxBox(0, 0, 10, 10) /\ b = PxBox(20, 20, 10, 10))
                  => ~out.ret
           /\ out.ret = overlaps(out.b, out.a)

\* Two boxes that touch along an edge, one of them rotated and one of them
\* a triangle, were tested and do not overlap.
C23_Witness ==
    /\ out.op = "check_collision"
    /\ BoxOf(out.a) = PxBox(0, 0, 10, 10)
    /\ BoxOf(out.b) = PxBox(10, 5, 10, 10)
    /\ out.a[1].deg # out.b[1].deg
    /\ out.a[3] # out.b[3]
    /\ ~out.ret

\* ------------------------------------------------------------------------
\* Lock order of the registry lock and the object locks (SpecLock)
\* ------------------------------------------------------------------------
\* Threads run the compound functions, populate_global_state and
\* GameLoop::update_game.  populate_global_state holds the GLOBAL_STATE
\* write lock from its first line to its return (phase "pop") and locks
\* each object of the scene in turn; every other registry call takes and
\* releases the lock on its own and waits while populate holds it.
RegistryFree == \A u \in Threads : pc[u].phase # "pop"

SceneAll == SceneS \o SceneA

InitLock ==
    /\ gs = GlobalState_default
    /\ poisoned = FALSE
    /\ objects = SceneObjects(FaultX, <<1>>, <<1>>, Vec2(Px(100), 0))
    /\ last = NoCall
    /\ prev = NoCall
    /\ first = [s |-> EmptyMap, a |-> EmptyMap]
    /\ pc = [t \in Threads |-> Idle]
    /\ objlock = [h \in Handles |-> 0]
    /\ mv = NoMove
    /\ list = List_new
    /\ script = NoScript
    /\ input = NoInput
    /\ out = NoOut

\* `GLOBAL_STATE.write().expect(..)`: waits for the lock; on a poisoned
\* lock the call panics at once.
PopBegin(t) ==
    /\ pc[t].phase = "idle"
    /\ pc[t].calls < MaxCalls
    /\ RegistryFree
    /\ pc' = [pc EXCEPT ![t] =
                 IF poisoned THEN [@ EXCEPT !.calls = @ + 1]
                 ELSE [op |-> "populate_global_state", h |-> 0,
                       phase |-> "pop", i |-> 1, calls |-> pc[t].calls + 1]]
    /\ UNCHANGED <<gs, poisoned, objects, last, prev, first, objlock, mv, list,
                   script, out, input>>

\* One iteration of a loop of populate_global_state: `obj.lock().expect(..)`
\* waits for the object, the registry is filled in and the object guard is
\* dropped; a panic unwinds and leaves the registry lock poisoned.
PopStep(t) ==
    /\ pc[t].phase = "pop"
    /\ LET h == SceneAll[pc[t].i]
           r == IF pc[t].i <= Len(SceneS)
                THEN populate_static(gs, objects[h], h)
                ELSE populate_animated(gs, objects[h], h)
       IN /\ objlock[h] = 0
          /\ gs' = r.gs
          /\ poisoned' = r.panic
          /\ pc' = IF r.panic \/ pc[t].i = Len(SceneAll) THEN Return(t)
                   ELSE [pc EXCEPT ![t].i = @ + 1]
    /\ UNCHANGED <<objects, last, prev, first, objlock, mv, list, script, out, input>>

\* update_game: `obj.lock()` on the next animated object of the scene.
TickBegin(t) ==
    /\ pc[t].phase = "idle"
    /\ pc[t].calls < MaxCalls
    /\ objlock[SceneA[1]] = 0
    /\ objlock' = [objlock EXCEPT ![SceneA[1]] = t]
    /\ pc' = [pc EXCEPT ![t] =
                 [op |-> "update_game", h |-> SceneA[1], phase |-> "tick",
                  i |-> 1, calls |-> pc[t].calls + 1]]
    /\ UNCHANGED <<gs, poisoned, objects, last, prev, first, mv, list, script,
                   out, input>>

\* The objects check_collision locks for the mover h: those of the scanned
\* mask rows, its own excepted, that are in an id-list and its map.
LockedByCheck(g, h) ==
    {q \in Handles \ {h} :
        InRegistry(g, q) /\ \E row \in 1..14 : InGroup(g, q, row)}

\* process reads the registry unless the velocity is at most 0.001.
ReadsRegistry(h) ==
    ~(Abs(objects[h].velocity.x) <= Epsilon
        /\ Abs(objects[h].velocity.y) <= Epsilon)

\* process(delta_time) on the locked object: check_collision takes the
\* registry read lock and the lock of every object it tests, so it waits
\* while populate holds the write lock or another thread holds such an
\* object.  The guard is dropped and the next object is locked.
TickRun(t, delta_time) ==
    /\ pc[t].phase = "tick"
    /\ LET h == pc[t].h
       IN /\ ReadsRegistry(h) =>
                 /\ RegistryFree
                 /\ \A q \in LockedByCheck(gs, h) : objlock[q] = 0
          /\ objects' = [objects EXCEPT
                            ![h] = process(gs, poisoned, objects, h,
                                           delta_time).obj]
          /\ IF pc[t].i = Len(SceneA)
             THEN /\ pc' = Return(t)
                  /\ objlock' = [objlock EXCEPT ![h] = 0]
             ELSE /\ objlock[SceneA[pc[t].i + 1]] = 0
                  /\ pc' = [pc EXCEPT ![t].i = @ + 1,
                                      ![t].h = SceneA[pc[t].i + 1]]
                  /\ objlock' = [objlock EXCEPT
                                    ![h] = 0, ![SceneA[pc[t].i + 1]] = t]
    /\ UNCHANGED <<gs, poisoned, last, prev, first, mv, list, script, out, input>>

\* The registry calls of the compound functions: each waits for the
\* GLOBAL_STATE lock, makes its change and releases the lock.
LockedMaskStep(t) == RegistryFree /\ MaskStep(t)

LockedZStep(t) == RegistryFree /\ ZStep(t)

LockedIdentStep(t) == RegistryFree /\ IdentStep(t)

LockedMapStep(t) == RegistryFree /\ MapStep(t)

NextLock ==
    \/ \E t \in Threads, op \in CompoundOps :
           \E h \in OpHandles(op) : Begin(t, op, h)
    \/ \E t \in Threads : LockedMaskStep(t)
    \/ \E t \in Threads : LockedZStep(t)
    \/ \E t \in Threads : LockedIdentStep(t)
    \/ \E t \in Threads : LockedMapStep(t)
    \/ \E t \in Threads : PopBegin(t)
    \/ \E t \in Threads : PopStep(t)
    \/ \E t \in Threads : TickBegin(t)
    \/ \E t \in Threads, dt \in DeltaInputs : TickRun(t, dt)

SpecLock == InitLock /\ [][NextLock]_vars

\* Thread t holds an object lock.
HoldsObject(t) == \E h \in Handles : objlock[h] = t

\* The next thing thread t does is to take the registry lock.
WantsRegistry(t) ==
    \/ pc[t].phase \in {"masks", "z", "ident", "map"}
    \/ pc[t].phase = "tick" /\ ReadsRegistry(pc[t].h)

\* Thread t is inside a call and waits for a lock another thread holds.
Waits(t) ==
    \/ WantsRegistry(t) /\ ~RegistryFree
    \/ pc[t].phase = "pop" /\ objlock[SceneAll[pc[t].i]] # 0
    \/ /\ pc[t].phase = "tick"
       /\ ReadsRegistry(pc[t].h)
       /\ \E q \in LockedByCheck(gs, pc[t].h) : objlock[q] # 0

\* Every thread that is inside a call waits, so no lock is ever released.
Deadlocked ==
    /\ \E t \in Threads : pc[t].phase # "idle"
    /\ \A t \in Threads : pc[t].phase # "idle" => Waits(t)

NoDeadlock == ~Deadlocked

\* C24: no thread asks for the registry lock while it holds an object
\* lock, and no state is reached in which the threads running the compound
\* functions, populate_global_state and update_game wait for each other
\* for ever.
C24_RegistryLockFirst ==
    /\ \A t \in Threads : ~(HoldsObject(t) /\ WantsRegistry(t))
    /\ NoDeadlock

\* ------------------------------------------------------------------------
\* Scripted sequences of an AnimatedObject (SpecScript)
\* ------------------------------------------------------------------------
\* Number of run_sequence calls followed after an add_script.
MaxRuns == 4

\* A ScriptFn is a FnMut closure returning whether its step is complete:
\* it is modelled by the number of calls it needs to complete (`need`) and
\* the number of calls made on it so far (`calls`).
NeedInputs == {1, 2, 3}

ScriptFns == [need : NeedInputs, calls : {0}]

ScriptInputs ==
    {<< >>} \cup {<<f>> : f \in ScriptFns}
            \cup {<<f, g>> : f \in ScriptFns, g \in ScriptFns}
            \cup {<<f, g, k>> : f \in ScriptFns, g \in ScriptFns,
                                k \in ScriptFns}

\* add_script: self.sequence = Some(script).  `ran` starts again: it lists
\* the steps run_sequence executed on this script and what they returned.
add_script(sc) ==
    /\ script' = [some |-> TRUE, sequence |-> sc, ran |-> << >>]
    /\ UNCHANGED <<gs, poisoned, objects, last, prev, first, pc, objlock, mv,
                   list, out, input>>

\* run_sequence: with a script that is not empty, the closure sequence[0]
\* is called and its result dropped.
run_sequence_run(sc) ==
    IF ~sc.some \/ sc.sequence = << >> THEN sc
    ELSE LET f == sc.sequence[1]
         IN [sc EXCEPT !.sequence[1].calls = @ + 1,
                       !.ran = Append(@, [step |-> 1,
                                          ret |-> f.calls + 1 >= f.need])]

\* BaseTrait::update calls run_sequence once.
run_sequence ==
    /\ Len(script.ran) < MaxRuns
    /\ script' = run_sequence_run(script)
    /\ UNCHANGED <<gs, poisoned, objects, last, prev, first, pc, objlock, mv,
                   list, out, input>>

NextScript ==
    \/ \E sc \in ScriptInputs : add_script(sc)
    \/ run_sequence

SpecScript == Init /\ [][NextScript]_vars

\* C26: the steps of the script are executed in order: the first
\* run_sequence executes step 1, a step that returned false is executed
\* again, and after a step returned true the next step of the vector is
\* the one executed, until every step has run.
C26_StepsRunInOrder ==
    /\ script.ran # << >> => script.ran[1].step = 1
    /\ \A i \in 1..(Len(script.ran) - 1) :
          /\ ~script.ran[i].ret => script.ran[i + 1].step = script.ran[i].step
          /\ (script.ran[i].ret /\ script.ran[i].step < Len(script.sequence))
                 => script.ran[i + 1].step = script.ran[i].step + 1

\* ------------------------------------------------------------------------
\* types::List (SpecList)
\* ------------------------------------------------------------------------
\* Nodes are allocated one after another and named by their number; 0 is
\* None.  A node holds Option<value> (a tuple of 0 or 1 values) and `next`.
\* At most MaxNodes nodes are allocated in a run.
MaxNodes == 4

ValueInputs == {1, 2}

Node_new(value) == [value |-> <<value>>, next |-> 0]

increment(l) == [l EXCEPT !.length = @ + 1]

\* Mutant of decrement: the counter is left as it is.
decrement_skip(l) == l

decrement(l) == IF l.length > 0 THEN [l EXCEPT !.length = @ - 1] ELSE l

\* List::append
append_run(l, value) ==
    LET new_node == Len(l.nodes) + 1
        l1 == [l EXCEPT !.nodes = Append(@, Node_new(value))]
    IN IF l.head # 0
       THEN IF l.tail # 0
            THEN [increment(l1) EXCEPT !.nodes[l.tail].next = new_node,
                                       !.tail = new_node]
            ELSE l1
       ELSE [increment(l1) EXCEPT !.head = new_node, !.tail = new_node]

\* Mutant of pop: the value of the tail node is the one returned.
pop_run_tail(l) ==
    IF l.head # 0
    THEN LET node == l.nodes[l.head]
             l1 == [decrement(l) EXCEPT !.head = node.next]
             l2 == IF l1.head = 0 THEN [l1 EXCEPT !.tail = 0] ELSE l1
         IN [ok |-> TRUE, val |-> l.nodes[l.tail].value,
             panic |-> node.value = << >>,
             list |-> [l2 EXCEPT !.nodes[l.head].value = << >>]]
    ELSE [ok |-> FALSE, val |-> << >>, panic |-> FALSE, list |-> l]

\* List::pop: Ok(value of the head node) or Err; `value.take().unwrap()`
\* panics on a node whose value was taken before.
pop_run(l) ==
    IF l.head # 0
    THEN LET node == l.nodes[l.head]
             l1 == [decrement(l) EXCEPT !.head = node.next]
             l2 == IF l1.head = 0 THEN [l1 EXCEPT !.tail = 0] ELSE l1
         IN [ok |-> TRUE, val |-> node.value, panic |-> node.value = << >>,
             list |-> [l2 EXCEPT !.nodes[l.head].value = << >>]]
    ELSE [ok |-> FALSE, val |-> << >>, panic |-> FALSE, list |-> l]

\* List::is_empty
is_empty(l) == l.head = 0

\* ListIter::next from the node `current` on, until it returns None: the
\* values yielded, in order.  n bounds the number of calls.
RECURSIVE ListIter_collect(_, _, _)
ListIter_collect(l, current, n) ==
    IF current = 0 \/ n = 0 \/ l.nodes[current].value = << >> THEN << >>
    ELSE <<l.nodes[current].value[1]>>
             \o ListIter_collect(l, l.nodes[current].next, n - 1)

\* Mutant of the iteration: the list is emptied as it is walked.
for_each_run_drain(l) ==
    [list |-> [l EXCEPT !.head = 0, !.tail = 0, !.length = 0],
     items |-> ListIter_collect(l, l.head, MaxNodes + 1)]

\* `for value in &list`: iter() starts at head and next() is called until
\* None; the list is borrowed immutably and nothing of it is written.
for_each_run(l) ==
    [list |-> l, items |-> ListIter_collect(l, l.head, MaxNodes + 1)]

\* The record of a call on the list: the call and what it returned, the
\* list before it, the values appended and not yet popped, oldest first,
\* before (`was`) and after (`fifo`) the call, and the numbers of appends
\* and of successful pops so far.
ListCall(op, ok, val, items, was, fifo, appends, pops) ==
    [op |-> op, ok |-> ok, val |-> val, items |-> items, before |-> list,
     was |-> was, fifo |-> fifo, appends |-> appends, pops |-> pops]

InitList ==
    /\ gs = GlobalState_default
    /\ poisoned = FALSE
    /\ objects = DefaultObjects
    /\ last = NoCall
    /\ prev = NoCall
    /\ first = [s |-> EmptyMap, a |-> EmptyMap]
    /\ pc = [t \in Threads |-> Idle]
    /\ objlock = [h \in Handles |-> 0]
    /\ mv = NoMove
    /\ list = List_new
    /\ script = NoScript
    /\ input = NoInput
    /\ out = [op |-> "none", ok |-> TRUE, val |-> << >>, items |-> << >>,
              before |-> List_new, was |-> << >>, fifo |-> << >>,
              appends |-> 0, pops |-> 0]

append(value) ==
    /\ Len(list.nodes) < MaxNodes
    /\ list' = append_run(list, value)
    /\ out' = ListCall("append", TRUE, <<value>>, << >>, out.fifo,
                       Append(out.fifo, value), out.appends + 1, out.pops)
    /\ UNCHANGED <<gs, poisoned, objects, last, prev, first, pc, objlock, mv,
                   script, input>>

pop ==
    /\ LET r == pop_run(list)
       IN /\ list' = r.list
          /\ out' = ListCall(IF r.panic THEN "panic" ELSE "pop", r.ok, r.val,
                             << >>, out.fifo,
                             IF out.fifo = << >> THEN << >>
                             ELSE Tail(out.fifo),
                             out.appends,
                             out.pops + (IF r.ok THEN 1 ELSE 0))
    /\ UNCHANGED <<gs, poisoned, objects, last, prev, first, pc, objlock, mv,
                   script, input>>

for_each ==
    /\ LET r == for_each_run(list)
       IN /\ list' = r.list
          /\ out' = ListCall("for_each", TRUE, << >>, r.items, out.fifo,
                             out.fifo, out.appends, out.pops)
    /\ UNCHANGED <<gs, poisoned, objects, last, prev, first, pc, objlock, mv,
                   script, input>>

NextList ==
    \/ \E value \in ValueInputs : append(value)
    \/ pop
    \/ for_each

SpecList == InitList /\ [][NextList]_vars

\* C27: List is first-in-first-out: a pop on a list that holds values
\* returns the oldest value appended and not yet popped; a pop on an empty
\* list returns an error and leaves the list empty.
C27_ListIsFifo ==
    out.op = "pop" =>
        IF out.was = << >>
        THEN ~out.ok /\ is_empty(list) /\ list = out.before
        ELSE out.ok /\ out.val = <<Head(out.was)>>

\* Two different values were appended and a pop returned the older one.
C27_Witness ==
    /\ out.op = "pop"
    /\ out.ok
    /\ Len(out.was) >= 2
    /\ out.was[1] # out.was[2]
    /\ out.val = <<out.was[1]>>

\* The nodes reachable from head by `next`, at most n of them.
RECURSIVE Reachable(_, _, _)
Reachable(l, node, n) ==
    IF node = 0 \/ n = 0 THEN << >>
    ELSE <<node>> \o Reachable(l, l.nodes[node].next, n - 1)

\* C28: after any sequence of append and pop calls, length is the number
\* of nodes reachable from head, which is the number of appends less the
\* number of successful pops; is_empty() is true exactly when length is 0;
\* head is None exactly when tail is None.
C28_LengthCountsNodes ==
    /\ list.length = Len(Reachable(list, list.head, MaxNodes + 1))
    /\ list.length = out.appends - out.pops
    /\ is_empty(list) <=> list.length = 0
    /\ list.head = 0 <=> list.tail = 0

\* A list that held two values was popped once and holds one.
C28_Witness ==
    /\ out.op = "pop"
    /\ out.ok
    /\ out.before.length = 2
    /\ list.length = 1
    /\ list.head = list.tail

\* C29: iterating the list by reference yields every stored value once, in
\* append order, and leaves head, tail, length and the stored values as they
\* were.
C29_IterationReadsOnly ==
    out.op = "for_each" =>
        /\ out.items = out.fifo
        /\ list = out.before

\* A list holding two different values, after an earlier pop, was iterated.
C29_Witness ==
    /\ out.op = "for_each"
    /\ Len(out.items) = 2
    /\ out.items[1] # out.items[2]
    /\ out.pops > 0

\* ------------------------------------------------------------------------
\* The compound functions step by step, run by one thread (SpecSeq)
\* ------------------------------------------------------------------------
\* The thread that makes the calls.
Caller == CHOOSE t \in Threads : \A u \in Threads : t <= u

NextSeq ==
    \/ \E op \in CompoundOps : \E h \in OpHandles(op) : Begin(Caller, op, h)
    \/ MaskStep(Caller)
    \/ ZStep(Caller)
    \/ IdentStep(Caller)
    \/ MapStep(Caller)

SpecSeq == InitFull /\ [][NextSeq]_vars

\* Where the id of the object behind handle h is in the registry g.
InMap(g, h) ==
    IF h \in StaticHandles THEN ObjId(h) \in DOMAIN g.s_map
    ELSE ObjId(h) \in DOMAIN g.a_map

InIdList(g, h) ==
    IF h \in StaticHandles THEN ObjId(h) \in Range(g.s_identifiables)
    ELSE ObjId(h) \in Range(g.a_identifiables)

\* In the z-index row the compound functions use for the object's z_index.
InOwnLayer(g, h) ==
    LET r == IF h \in StaticHandles
             THEN get_static_z_index_row(g, objects[h].z_index)
             ELSE get_animated_z_index_row(g, objects[h].z_index)
    IN r.ok /\ ObjId(h) \in Range(r.val)

\* In the mask row of every mask of the object / of some mask of it.
InAllGroups(g, h) ==
    \A i \in DOMAIN objects[h].masks : InGroup(g, h, objects[h].masks[i])

InSomeGroup(g, h) ==
    \E i \in DOMAIN objects[h].masks : InGroup(g, h, objects[h].masks[i])

\* The thread is inside a_remove_* on the object behind h.
Removing(h) == pc[Caller].h = h /\ pc[Caller].op \notin AddOps
                  /\ pc[Caller].phase # "idle"

\* a_add_* on the object meets no index out of range, so that the object
\* is registered in full or not at all when a_remove_* starts.
Registrable(h) == ~BadGroup(h) /\ objects[h].z_index \in 1..255

\* C31: a_add_* appends to every mask row, then to the z-index row, then
\* to the id-list, then inserts into the map: in every state between its
\* steps an id that is a key of the map is in its id-list, its z-index row
\* and all its mask rows.  a_remove_* removes in the same order: between
\* its steps an id gone from the z-index row is gone from its mask rows,
\* an id gone from the id-list is gone from the z-index row, and an id gone
\* from the map is gone from the id-list (for an object whose indices are
\* in range: a_add_* on another object stops part-way).
C31_IndexOrder ==
    \A h \in Range(SceneS) \cup Range(SceneA) :
        IF Removing(h) /\ Registrable(h)
        THEN /\ ~InOwnLayer(gs, h) => ~InSomeGroup(gs, h)
             /\ ~InIdList(gs, h) => ~InOwnLayer(gs, h)
             /\ ~InMap(gs, h) => ~InIdList(gs, h)
        ELSE InMap(gs, h) =>
                 InIdList(gs, h) /\ InOwnLayer(gs, h) /\ InAllGroups(gs, h)

\* a_add_* on an object with two masks is before its map call: the id is
\* in both mask rows, the z-index row and the id-list and not yet a key of
\* the map.
C31_Witness ==
    /\ pc[Caller].phase = "map"
    /\ pc[Caller].op \in AddOps
    /\ Len(objects[pc[Caller].h].masks) = 2
    /\ InAllGroups(gs, pc[Caller].h)
    /\ InOwnLayer(gs, pc[Caller].h)
    /\ InIdList(gs, pc[Caller].h)
    /\ ~InMap(gs, pc[Caller].h)

\* ------------------------------------------------------------------------
\* A frame over two movable objects (SpecTick)
\* ------------------------------------------------------------------------
\* World::a_objects holds the two movable objects in the order in which
\* the application added them.
TickOrders == {<<3, 4>>, <<4, 3>>}

\* GameLoop::update_game(delta_time) on a World whose a_objects is hs.
tick(hs, delta_time) ==
    /\ mv.moves < MaxMoves
    /\ \A h \in Range(hs) : objlock[h] = 0
    /\ LET r == update_game_run(gs, poisoned, objects, hs, delta_time, mv)
       IN /\ objects' = r.objs
          /\ mv' = [r.rec EXCEPT !.moves = mv.moves + 1]
    /\ UNCHANGED <<gs, poisoned, last, prev, first, pc, objlock, list, script,
                   out, input>>

NextTick == \E hs \in TickOrders, dt \in DeltaInputs : tick(hs, dt)

SpecTick == InitMove /\ [][NextTick]_vars

\* The object processed before the last one in the last frame.
Earlier == CHOOSE h \in AnimatedHandles : h # mv.h

\* C32: in a frame the objects are processed one after another without a
\* snapshot: the first is processed against the positions at the start of
\* the frame, and the one processed after it against the position the
\* first has committed.
C32_LaterSeesEarlier ==
    mv.op = "process" =>
        /\ objects[Earlier] =
               process(mv.g, mv.p, mv.objs0, Earlier, mv.dt).obj
        /\ objects[mv.h] = process(mv.g, mv.p, Before, mv.h, mv.dt).obj
        /\ Before = [mv.objs0 EXCEPT ![Earlier] = objects[Earlier]]

\* Two movers headed into the same space: the one processed last ended
\* elsewhere than it would against the positions at the start of the frame,
\* and the frame in the other order would have ended in other positions.
C32_Witness ==
    /\ mv.op = "process"
    /\ objects[mv.h] # process(mv.g, mv.p, mv.objs0, mv.h, mv.dt).obj
    /\ objects # update_loop(mv.g, mv.p, mv.objs0, <<mv.h, Earlier>>, mv.dt,
                             mv).objs

\* ------------------------------------------------------------------------
\* Registration that fails part-way
\* ------------------------------------------------------------------------
\* C34: a failed a_add_s_object / a_add_a_object leaves the registry as it
\* was before the call.
C34_FailedAddLeavesRegistry ==
    (last.op \in AddOps /\ ~last.ok) => gs = last.before

\* ------------------------------------------------------------------------
\* Fields rewritten between registration and removal (SpecStale)
\* ------------------------------------------------------------------------
\* z_index and masks are pub fields of StaticObject and AnimatedObject; the
\* application reaches them behind a handle through as_any_mut().
StaleZ == {1, 255}
StaleMasks == {<<1>>, <<15>>}

InitStale ==
    /\ gs = GlobalState_default
    /\ poisoned = FALSE
    /\ objects = [DefaultObjects EXCEPT
                     ![1].z_index = 1, ![1].masks = <<1>>,
                     ![3].z_index = 1, ![3].masks = <<1>>]
    /\ last = NoCall
    /\ prev = NoCall
    /\ first = [s |-> EmptyMap, a |-> EmptyMap]
    /\ pc = [t \in Threads |-> Idle]
    /\ objlock = [h \in Handles |-> 0]
    /\ mv = NoMove
    /\ list = List_new
    /\ script = NoScript
    /\ input = NoInput
    /\ out = NoOut

\* `obj.lock().unwrap().as_any_mut().downcast_mut().unwrap().z_index = z`
set_z_index(h, z) ==
    /\ objlock[h] = 0
    /\ objects[h].z_index # z
    /\ objects' = [objects EXCEPT ![h].z_index = z]
    /\ last' = Call("set_z_index", h, z, ObjId(h), TRUE, << >>, gs)
    /\ prev' = last
    /\ UNCHANGED <<gs, poisoned, first, pc, objlock, mv, list, script, out, input>>

\* `obj.lock().unwrap().as_any_mut().downcast_mut().unwrap().masks = m`
set_masks(h, m) ==
    /\ objlock[h] = 0
    /\ objects[h].masks # m
    /\ objects' = [objects EXCEPT ![h].masks = m]
    /\ last' = Call("set_masks", h, -1, ObjId(h), TRUE, << >>, gs)
    /\ prev' = last
    /\ UNCHANGED <<gs, poisoned, first, pc, objlock, mv, list, script, out, input>>

NextStale ==
    \/ \E h \in Range(SceneS) : a_add_s_object(h)
    \/ \E h \in Range(SceneA) : a_add_a_object(h)
    \/ \E h \in Range(SceneS) : a_remove_s_object(h)
    \/ \E h \in Range(SceneA) : a_remove_a_object(h)
    \/ \E z \in StaleZ : set_z_index(SceneS[1], z)
    \/ \E m \in StaleMasks : set_masks(SceneA[1], m)

SpecStale == InitStale /\ [][NextStale]_vars

\* The id of the object behind h is in no mask row, in no z-index row of
\* its category, not in the id-list and not a key of the map.
Absent(g, h) ==
    /\ \A i \in DOMAIN g.masks : ObjId(h) \notin Range(g.masks[i])
    /\ IF h \in StaticHandles
       THEN \A i \in DOMAIN g.s_z_index : ObjId(h) \notin Range(g.s_z_index[i])
       ELSE \A i \in DOMAIN g.a_z_index : ObjId(h) \notin Range(g.a_z_index[i])
    /\ ~InIdList(g, h)
    /\ ~InMap(g, h)

\* C35: after a successful a_remove_s_object / a_remove_a_object the
\* object's id is in no mask row, no z-index row of its category, not in
\* the id-list and not in the map, whatever was written to its z_index and
\* masks fields since it was registered.
C35_RemovedMeansAbsent ==
    (last.op \in {"a_remove_s_object", "a_remove_a_object"} /\ last.ok)
        => Absent(gs, last.h)

\* ------------------------------------------------------------------------
\* Two threads processing two movable objects (SpecPair)
\* ------------------------------------------------------------------------
\* The ids check_collision tests for the mover h in mask row `row`, in the
\* order of the row: those that are not its own and name a registered
\* object.
RowTargets(g, h, row) ==
    LET r == get_mask_row(g, row)
        Tested(id) ==
            /\ id # ObjId(h)
            /\ \/ id \in Range(g.s_identifiables) /\ get_static_object(g, id).ok
               \/ id \in Range(g.a_identifiables)
                    /\ get_animated_object(g, id).ok
    IN IF r.ok THEN SelectSeq(r.val, Tested) ELSE << >>

\* `for row in 1..15`: the ids tested from mask row `row` on.
RECURSIVE ScanTargets(_, _, _)
ScanTargets(g, h, row) ==
    IF row > 14 THEN << >>
    ELSE RowTargets(g, h, row) \o ScanTargets(g, h, row + 1)

\* The handle check_collision locks for a tested id.
TargetHandle(g, id) ==
    IF id \in Range(g.s_identifiables) /\ get_static_object(g, id).ok
    THEN get_static_object(g, id).val[1]
    ELSE get_animated_object(g, id).val[1]

\* `obj.lock().unwrap()` of `obj.lock().unwrap().process(delta_time)`: the
\* guard lives until process has returned.
ProcessBegin(t, h) ==
    /\ pc[t].phase = "idle"
    /\ pc[t].calls < MaxCalls
    /\ objlock[h] = 0
    /\ objlock' = [objlock EXCEPT ![h] = t]
    /\ pc' = [pc EXCEPT ![t] =
                 [op |-> "process", h |-> h, phase |-> "process", i |-> 1,
                  calls |-> pc[t].calls + 1]]
    /\ UNCHANGED <<gs, poisoned, objects, last, prev, first, mv, list, script,
                   out, input>>

\* The first `g_obj.lock().unwrap()` of check_collision, made while the
\* guard of the processed object is held.
CheckLock(t) ==
    /\ pc[t].phase = "process"
    /\ ReadsRegistry(pc[t].h)
    /\ ScanTargets(gs, pc[t].h, 1) # << >>
    /\ LET q == TargetHandle(gs, ScanTargets(gs, pc[t].h, 1)[1])
       IN /\ objlock[q] = 0
          /\ objlock' = [objlock EXCEPT ![q] = t]
    /\ pc' = [pc EXCEPT ![t].phase = "test"]
    /\ UNCHANGED <<gs, poisoned, objects, last, prev, first, mv, list, script,
                   out, input>>

\* The rest of process: the guard of the tested object is dropped, every
\* further object tested is locked and unlocked in turn, the result is
\* written and the guard of the processed object is dropped.
ProcessEnd(t, delta_time) ==
    /\ \/ pc[t].phase = "test"
       \/ /\ pc[t].phase = "process"
          /\ ~ReadsRegistry(pc[t].h) \/ ScanTargets(gs, pc[t].h, 1) = << >>
    /\ \A q \in LockedByCheck(gs, pc[t].h) : objlock[q] \in {0, t}
    /\ objects' = [objects EXCEPT
                      ![pc[t].h] = process(gs, poisoned, objects, pc[t].h,
                                           delta_time).obj]
    /\ objlock' = [h \in Handles |-> IF objlock[h] = t THEN 0 ELSE objlock[h]]
    /\ pc' = Return(t)
    /\ UNCHANGED <<gs, poisoned, last, prev, first, mv, list, script, out, input>>

NextPair ==
    \/ \E t \in Threads, h \in AnimatedHandles : ProcessBegin(t, h)
    \/ \E t \in Threads : CheckLock(t)
    \/ \E t \in Threads, dt \in DeltaInputs : ProcessEnd(t, dt)

SpecPair == InitMove /\ [][NextPair]_vars

\* The object locks thread t holds.
HeldBy(t) == {h \in Handles : objlock[h] = t}

\* Thread t is inside process and the lock it asks for next is held by
\* another thread.
PairWaits(t) ==
    \/ /\ pc[t].phase = "process"
       /\ ReadsRegistry(pc[t].h)
       /\ ScanTargets(gs, pc[t].h, 1) # << >>
       /\ objlock[TargetHandle(gs, ScanTargets(gs, pc[t].h, 1)[1])] # 0
    \/ /\ pc[t].phase = "test"
       /\ \E q \in LockedByCheck(gs, pc[t].h) : objlock[q] \notin {0, t}

\* Both threads process different objects and each waits for a lock the
\* other holds.
PairDeadlocked ==
    /\ \A t \in Threads : pc[t].phase # "idle" /\ PairWaits(t)
    /\ \A t \in Threads, u \in Threads : t # u => pc[t].h # pc[u].h

HoldsAtMostOne == \A t \in Threads : Cardinality(HeldBy(t)) <= 1

NoPairDeadlock == ~PairDeadlocked

\* C36: a thread processing an object holds at most one object lock at any
\* time, and two threads processing two different movable objects of a
\* common group never wait for each other's locks for ever.
C36_OneLockNoDeadlock == HoldsAtMostOne /\ NoPairDeadlock

\* ------------------------------------------------------------------------
\* The render pass over the z-index rows (SpecRender)
\* ------------------------------------------------------------------------
\* `for row_index in 1..255`: the rows lo..hi in order, the static ids of
\* a row before its animated ids.
RECURSIVE render_rows(_, _, _)
render_rows(g, lo, hi) ==
    IF lo > hi THEN << >>
    ELSE IF lo = hi
    THEN [k \in DOMAIN get_static_z_index_row(g, lo).val |->
              <<"s", get_static_z_index_row(g, lo).val[k]>>]
         \o [k \in DOMAIN get_animated_z_index_row(g, lo).val |->
                 <<"a", get_animated_z_index_row(g, lo).val[k]>>]
    ELSE render_rows(g, lo, (lo + hi) \div 2)
         \o render_rows(g, (lo + hi) \div 2 + 1, hi)

\* `get_static_object(&id).unwrap()` / `get_animated_object(&id).unwrap()`
\* panics on an id that is a key of no map.
Drawable(g, e) ==
    IF e[1] = "s" THEN get_static_object(g, e[2]).ok
    ELSE get_animated_object(g, e[2]).ok

\* Renderer::render: the objects drawn, in order, up to the first panic.
render_run(g) ==
    LET all == render_rows(g, 1, 254)
        bad == {k \in DOMAIN all : ~Drawable(g, all[k])}
    IN IF bad = {} THEN [drawn |-> all, panic |-> FALSE]
       ELSE [drawn |-> SubSeq(all, 1,
                              (CHOOSE k \in bad : \A j \in bad : k <= j) - 1),
             panic |-> TRUE]

render ==
    /\ \A h \in Handles : objlock[h] = 0
    /\ LET r == IF poisoned THEN [drawn |-> << >>, panic |-> TRUE]
                ELSE render_run(gs)
       IN /\ out' = [op |-> "render", ret |-> r.drawn, panic |-> r.panic]
          /\ last' = Call("render", 0, -1, "", ~r.panic, << >>, gs)
    /\ prev' = last
    /\ UNCHANGED <<gs, poisoned, objects, first, pc, objlock, mv, list, script, input>>

NextRender ==
    \/ \E h \in Range(SceneS) : a_add_s_object(h)
    \/ \E h \in Range(SceneA) : a_add_a_object(h)
    \/ populate_global_state
    \/ render

SpecRender == InitFull /\ [][NextRender]_vars

\* The tag and id under which the object behind h is drawn.
DrawnAs(h) == <<IF h \in StaticHandles THEN "s" ELSE "a", ObjId(h)>>

\* Number of times the object behind h was drawn in the last render pass.
DrawCount(h) == Cardinality({k \in DOMAIN out.ret : out.ret[k] = DrawnAs(h)})

\* The places of the id of the object behind h in the z-index rows of its
\* category.
LayerPlaces(g, h) ==
    LET rows == IF h \in StaticHandles THEN g.s_z_index ELSE g.a_z_index
    IN {e \in UNION {{<<i, k>> : k \in DOMAIN rows[i]} : i \in DOMAIN rows} :
           rows[e[1]][e[2]] = ObjId(h)}

\* C39: in a render pass every registered object (in the map, the id-list
\* and once in a z-index row of its category) is drawn once.
C39_RegisteredIsDrawn ==
    (out.op = "render" /\ last.op = "render") =>
        \A h \in Handles :
            (/\ InMap(gs, h)
             /\ InIdList(gs, h)
             /\ Cardinality(LayerPlaces(gs, h)) = 1)
            => DrawCount(h) = 1

\* The same for objects whose id is not in the last z-index row.
C39_BelowLastRowIsDrawn ==
    (out.op = "render" /\ last.op = "render") =>
        \A h \in Handles :
            (/\ InMap(gs, h)
             /\ InIdList(gs, h)
             /\ Cardinality(LayerPlaces(gs, h)) = 1
             /\ \A e \in LayerPlaces(gs, h) : e[1] # NumZ - 1
             /\ ~out.panic)
            => DrawCount(h) = 1

\* ------------------------------------------------------------------------
\* The shared input slot (SpecInput)
\* ------------------------------------------------------------------------
\* InputAction::push: `self.stack.lock().unwrap().replace(action)`.
InputAction_push(slot, action) == action

\* Mutant of InputAction::pop: the action is read and left in the slot.
InputAction_pop_peek(slot) == [ret |-> slot, slot |-> slot]

\* InputAction::pop: `self.stack.lock().unwrap().take()`.
InputAction_pop(slot) == [ret |-> slot, slot |-> 0]

\* The action stored last, unless a caller has been given it.
Pending ==
    IF input.stored # 0
         /\ \A k \in DOMAIN input.got : input.got[k].ret # input.stored
    THEN input.stored ELSE 0

\* get_current_input_action: `INPUT_ACTION.read()`, open to any number of
\* readers while no writer holds the lock.
GetBegin(t) ==
    /\ pc[t].phase = "idle"
    /\ pc[t].calls < MaxCalls
    /\ input.writer = 0
    /\ input' = [input EXCEPT !.readers = @ \cup {t}]
    /\ pc' = [pc EXCEPT ![t] =
                 [op |-> "get_current_input_action", h |-> 0, phase |-> "pop",
                  i |-> 0, calls |-> pc[t].calls + 1]]
    /\ UNCHANGED <<gs, poisoned, objects, last, prev, first, objlock, mv, list,
                   script, out>>

\* `.pop()` under the slot's Mutex; the read guard is dropped on return.
GetTake(t) ==
    /\ pc[t].phase = "pop"
    /\ pc[t].op = "get_current_input_action"
    /\ LET r == InputAction_pop(input.slot)
       IN input' = [input EXCEPT
                       !.slot = r.slot,
                       !.readers = @ \ {t},
                       !.got = Append(@, [t |-> t, ret |-> r.ret,
                                          expect |-> Pending,
                                          left |-> r.slot])]
    /\ pc' = Return(t)
    /\ UNCHANGED <<gs, poisoned, objects, last, prev, first, objlock, mv, list,
                   script, out>>

\* push_input_action(KeyAction::new(..)): `INPUT_ACTION.write()`, given
\* when no reader and no writer holds the lock.  The actions are numbered
\* in the order in which they are made.
PushBegin(t) ==
    /\ pc[t].phase = "idle"
    /\ pc[t].calls < MaxCalls
    /\ input.writer = 0
    /\ input.readers = {}
    /\ input' = [input EXCEPT !.writer = t, !.pushed = @ + 1]
    /\ pc' = [pc EXCEPT ![t] =
                 [op |-> "push_input_action", h |-> 0, phase |-> "push",
                  i |-> input.pushed + 1, calls |-> pc[t].calls + 1]]
    /\ UNCHANGED <<gs, poisoned, objects, last, prev, first, objlock, mv, list,
                   script, out>>

\* `.push(action)` under the slot's Mutex; the write guard is dropped.
PushStore(t) ==
    /\ pc[t].phase = "push"
    /\ input' = [input EXCEPT
                    !.slot = InputAction_push(@, pc[t].i),
                    !.stored = pc[t].i,
                    !.writer = 0]
    /\ pc' = Return(t)
    /\ UNCHANGED <<gs, poisoned, objects, last, prev, first, objlock, mv, list,
                   script, out>>

NextInput ==
    \/ \E t \in Threads : GetBegin(t)
    \/ \E t \in Threads : GetTake(t)
    \/ \E t \in Threads : PushBegin(t)
    \/ \E t \in Threads : PushStore(t)

SpecInput == Init /\ [][NextInput]_vars

\* C40: the slot holds nothing or the action pushed last;
\* get_current_input_action returns the action pushed last if no caller
\* has been given it and None otherwise, and leaves the slot empty; no
\* action is returned to two callers.
C40_OneActionOneTaker ==
    /\ input.slot \in {0, input.stored}
    /\ \A k \in DOMAIN input.got :
          /\ input.got[k].ret = input.got[k].expect
          /\ input.got[k].left = 0
    /\ \A j \in DOMAIN input.got : \A k \in DOMAIN input.got :
          (j # k /\ input.got[j].ret # 0)
              => input.got[j].ret # input.got[k].ret

\* Two actions were pushed before a caller took the second, and another
\* thread that called next was given None.
C40_Witness ==
    \E j \in DOMAIN input.got : \E k \in DOMAIN input.got :
        /\ j < k
        /\ input.got[j].ret = 2
        /\ input.got[k].ret = 0
        /\ input.got[j].t # input.got[k].t

====
